---- MODULE Spec2Model ----
(***************************************************************************)
(* State-machine model of the resource controllers of the AWS provider:    *)
(* the Batch compute environment, the Load Balancer (v2) and the SSM       *)
(* document.  Each handler (Create, Read, Update, Delete) is a sequence of *)
(* steps; the remote API is an environment that answers every request      *)
(* nondeterministically.  Time is counted in units of 5 seconds (the       *)
(* MinTimeout of the Batch poll sessions).                                  *)
(***************************************************************************)
EXTENDS Integers, Sequences, FiniteSets, TLC

VARIABLES
    res,       \* the resource kind this controller manages
    op,        \* the handler that is running: none, create, read, update, delete
    pc,        \* the position inside the running handler
    d,         \* schema.ResourceData: the local state of the resource
    cfg,       \* the configuration (and its changes) the handler was called with
    remote,    \* whether the resource exists on the remote side
    sess,      \* the poll session (resource.StateChangeConf) of the handler
    lastResp,  \* the last describe response the remote side gave
    ret,       \* what the handler returned: none, ok, err
    log,       \* the remote requests the running handler has issued, in order
    hist       \* facts about the running handler that the properties refer to

vars == <<res, op, pc, d, cfg, remote, sess, lastResp, ret, log, hist>>

----------------------------------------------------------------------------
(* Bounds of the model *)

\* Timeout of a poll session, in units of 5 seconds.
PollTimeout == 6

\* Timeout of a retry loop, in attempts that may be retried.
RetryTimeout == 2

----------------------------------------------------------------------------
(* Values *)

Resources == {"batch", "lb", "ssm"}

Names == {"n1", "n2"}

\* batch.CEStatus*
BatchStatuses == {"CREATING", "UPDATING", "DELETING", "DELETED", "VALID", "INVALID"}

\* elbv2.LoadBalancerStateEnum*
LbStatuses == {"provisioning", "active", "active_impaired", "failed"}

\* ssm.DocumentStatus*
SsmStatuses == {"Creating", "Active", "Updating", "Deleting", "Failed"}

\* The status each resource's create poll waits for.
TargetStatus(r) ==
    CASE r = "batch" -> "VALID"
      [] r = "lb" -> "active"
      [] r = "ssm" -> "Active"

TagKeys == {"k1", "k2"}
TagValues == {"v1", "v2"}

\* A tag mapping: a function from a set of keys to values.
TagMaps == UNION {[K -> TagValues] : K \in SUBSET TagKeys}

NoTags == [k \in {} |-> "v1"]

\* A describe response: an error code ("" for none) and the result set.
Response(e, items) == [err |-> e, items |-> items]

NoResponse == Response("none", <<>>)

Nil == Response("nil", <<>>)

----------------------------------------------------------------------------
(* The remote side *)

\* The error code with which each API reports that the resource does not
\* exist (Batch reports it by an empty result set).
NotFoundCode(r) ==
    CASE r = "batch" -> ""
      [] r = "lb" -> "LoadBalancerNotFound"
      [] r = "ssm" -> "InvalidDocument"

Statuses(r) ==
    CASE r = "batch" -> BatchStatuses
      [] r = "lb" -> LbStatuses
      [] r = "ssm" -> SsmStatuses

\* What a describe call can answer: an API error, the answer for a resource
\* that does not exist, one result, or (an anomaly of the API) two results
\* for a resource that exists; DescribeDocument returns one document or
\* none, never a list, and the lookup of a load balancer can come back with
\* no load balancer and no error.  A resource that does not exist is never
\* described.
DescribeResponses(r) ==
    {Response("Other", <<>>), Response(NotFoundCode(r), <<>>)}
        \cup (IF r = "lb" THEN {Response("", <<>>)} ELSE {})
        \cup (IF remote = "present"
              THEN {Response("", <<s>>) : s \in Statuses(r)}
                       \cup (IF r = "ssm"
                             THEN {Response("", <<>>)}
                             ELSE {Response("", <<s, t>>) :
                                      s \in Statuses(r), t \in {TargetStatus(r)}})
              ELSE {})

\* A request that changes the remote side succeeds or fails.
Outcomes == {TRUE, FALSE}

\* A request, whether it succeeded, and the parameter of it that the
\* properties refer to: its name and its value, a list ("" and the empty list
\* when none is looked at).
RequestWith(call, ok, param, arg) ==
    [call |-> call, ok |-> ok, param |-> param, arg |-> arg]

Request(call, ok) == RequestWith(call, ok, "", <<>>)

----------------------------------------------------------------------------
(* The poll session: resource.StateChangeConf and WaitForState *)

\* The first wait between two refreshes (MinTimeout, 5 seconds) and the cap of
\* the backoff (10 seconds).
MinTimeout == 1
MaxInterval == 2

IdleSession ==
    [active |-> FALSE, phase |-> "idle", pending |-> {}, target |-> {},
     refresh |-> "", timeout |-> 0, elapsed |-> 0, wait |-> 0, n |-> 0,
     sleeps |-> 0, status |-> "", payload |-> Nil, result |-> "none",
     errCode |-> "", lastState |-> "", allPending |-> TRUE]

\* A StateChangeConf as a handler builds it.
StateChangeConf(pending, target, refresh, timeout) ==
    [IdleSession EXCEPT !.pending = pending, !.target = target,
                        !.refresh = refresh, !.timeout = timeout,
                        !.wait = MinTimeout]

\* WaitForState is entered: the first refresh is due at once.
WaitForState(conf) == [conf EXCEPT !.active = TRUE, !.phase = "refresh"]

\* What the session does with the outcome of one refresh.
PollEvaluate(s, out) ==
    LET s1 == [s EXCEPT !.n = @ + 1, !.status = out.status, !.payload = out.payload]
    IN  IF out.err # ""
        THEN [s1 EXCEPT !.active = FALSE, !.phase = "idle", !.result = "error",
                        !.errCode = out.err]
        ELSE IF out.status \in s.target
        THEN [s1 EXCEPT !.active = FALSE, !.phase = "idle", !.result = "ok"]
        ELSE IF out.status \notin s.pending
        THEN [s1 EXCEPT !.active = FALSE, !.phase = "idle", !.result = "unexpected",
                        !.lastState = out.status]
        ELSE IF s.elapsed >= s.timeout
        THEN [s1 EXCEPT !.active = FALSE, !.phase = "idle", !.result = "timeout",
                        !.lastState = out.status]
        ELSE [s1 EXCEPT !.phase = "sleep"]

Min(a, b) == IF a < b THEN a ELSE b

\* The wait between two refreshes, with its backoff.
PollBackoff(s) ==
    [s EXCEPT !.elapsed = @ + s.wait, !.sleeps = @ + 1,
              !.wait = Min(2 * @, MaxInterval), !.phase = "refresh"]

----------------------------------------------------------------------------
(* Tag reconciliation: keyvaluetags.<Service>UpdateTags *)

\* The keys of o that n does not have.
Removed(o, n) == DOMAIN o \ DOMAIN n

\* The entries of n that o does not have, or has with another value.
Updated(o, n) ==
    LET K == {k \in DOMAIN n : k \notin DOMAIN o \/ o[k] # n[k]}
    IN  [k \in K |-> n[k]]

\* The requests of one tag update: the keys to untag and the tags to set.
UpdateTagsRequest(o, n) == [untag |-> Removed(o, n), tag |-> Updated(o, n)]

\* What the remote side holds after the requests, having held t before.
ApplyTagRequest(t, req) ==
    LET K == (DOMAIN t \ req.untag) \cup DOMAIN req.tag
    IN  [k \in K |-> IF k \in DOMAIN req.tag THEN req.tag[k] ELSE t[k]]

\* The untag request is issued when there is a key to remove, then the tag
\* request when there is a tag to set; the first failure ends the update.
UpdateTagsOutcomes(req) ==
    {"ok"} \cup (IF req.untag # {} THEN {"untag failed"} ELSE {})
           \cup (IF DOMAIN req.tag # {} THEN {"tag failed"} ELSE {})

UpdateTagsCalls(req, outcome) ==
    (IF req.untag # {}
     THEN <<Request("UntagResource", outcome # "untag failed")>> ELSE <<>>)
    \o (IF DOMAIN req.tag # {} /\ outcome # "untag failed"
        THEN <<Request("TagResource", outcome # "tag failed")>> ELSE <<>>)

----------------------------------------------------------------------------
(* The local state and the framework *)

NoData == [id |-> "", name |-> "", isNew |-> FALSE, status |-> ""]

NoTagRequest == [untag |-> {}, tag |-> NoTags]

\* The permissions map of the configuration: whether it is set, its "type"
\* ("" when the key is missing) and whether it has "account_ids".
NoPermissions == [set |-> FALSE, type |-> "", ids |-> FALSE]

NoCfg == [ceType |-> "", hasCR |-> FALSE, changed |-> FALSE, crChanged |-> FALSE,
          tagsChanged |-> FALSE, o |-> NoTags, n |-> NoTags,
          tagRequest |-> NoTagRequest, retried |-> 0, permissions |-> NoPermissions,
          diff |-> {}, schemaV1 |-> FALSE]

\* The old and new tags are locals of the tag step of Update: they are gone
\* once the handler moves on.
AfterTagStep(c) == [c EXCEPT !.o = NoTags, !.n = NoTags, !.tagRequest = NoTagRequest]

NoHist == [created |-> FALSE, targetSeen |-> FALSE, readInvoked |-> FALSE,
           returned |-> 1, goneAtStart |-> FALSE, polled |-> "none",
           pollErr |-> "", tagErr |-> "", timedOut |-> FALSE, late |-> 0,
           cleanup |-> "none", detach |-> "none", updateErr |-> "",
           niSeen |-> "none"]

Init ==
    /\ res \in Resources
    /\ op = "none"
    /\ pc = "idle"
    /\ d = NoData
    /\ cfg = NoCfg
    /\ remote \in {"absent", "present"}
    /\ sess = IdleSession
    /\ lastResp = NoResponse
    /\ ret = "none"
    /\ log = <<>>
    /\ hist = NoHist

\* The framework enters a handler: Create on a resource without an ID, the
\* others on a resource with one.
Start(o) ==
    /\ op = "none"
    /\ op' = o
    /\ pc' = "begin"
    /\ d' = [d EXCEPT !.isNew = (o = "create")]
    /\ hist' = [NoHist EXCEPT !.goneAtStart = (remote = "absent")]
    /\ UNCHANGED <<res, cfg, remote, sess, lastResp, ret, log>>

StartCreate == d.id = "" /\ Start("create")
StartRead == d.id # "" /\ Start("read")
StartUpdate == d.id # "" /\ Start("update")
StartDelete == d.id # "" /\ Start("delete")

\* The handler has returned: the framework removes from the state a resource
\* that was deleted or whose ID the handler cleared; a resource whose Create
\* failed keeps the ID the handler gave it.
Finish ==
    /\ pc = "done"
    /\ op' = "none"
    /\ pc' = "idle"
    /\ d' = IF d.id = "" \/ (op = "delete" /\ ret = "ok")
            THEN NoData
            ELSE [d EXCEPT !.isNew = FALSE]
    /\ cfg' = NoCfg
    /\ sess' = IdleSession
    /\ lastResp' = NoResponse
    /\ ret' = "none"
    /\ log' = <<>>
    /\ hist' = NoHist
    /\ UNCHANGED <<res, remote>>

\* The resource disappears on the remote side (deleted there, or removed by
\* someone else).
RemoteVanish ==
    /\ remote = "present"
    /\ remote' = "absent"
    /\ UNCHANGED <<res, op, pc, d, cfg, sess, lastResp, ret, log, hist>>

\* A handler returns.
Return(r) == ret' = r /\ pc' = "done"

----------------------------------------------------------------------------
(* Batch compute environment *)

Batch(o, at) == res = "batch" /\ op = o /\ pc = at

\* The IDs an import can be given: the name of an environment, which a
\* configuration may also hold or not.
BatchImportIds == {"n2", "n3"}

\* An importer that passes the ID through and seeds nothing.
BatchImportState_Passthrough(id) == [NoData EXCEPT !.id = id]

\* The importer: compute_environment_name is set to the supplied ID.
BatchImportState(id) == [NoData EXCEPT !.id = id, !.name = id]

BatchImport ==
    /\ res = "batch" /\ op = "none" /\ d.id = ""
    /\ \E id \in BatchImportIds : d' = BatchImportState(id)
    /\ UNCHANGED <<res, op, pc, cfg, remote, sess, lastResp, ret, log, hist>>

\* A status refresh function that returns no payload.
BatchStatusRefreshFunc_NilPayload(resp) ==
    IF resp.err # ""
    THEN [payload |-> Nil, status |-> "failed", err |-> resp.err]
    ELSE IF Len(resp.items) = 0
    THEN [payload |-> Nil, status |-> "failed", err |-> "NoComputeEnvironment"]
    ELSE [payload |-> Nil, status |-> resp.items[1], err |-> ""]

\* A status refresh function that reports the State of the environment
\* (ENABLED) in place of its Status.
BatchStatusRefreshFunc_State(resp) ==
    IF resp.err # ""
    THEN [payload |-> Nil, status |-> "failed", err |-> resp.err]
    ELSE IF Len(resp.items) = 0
    THEN [payload |-> Nil, status |-> "failed", err |-> "NoComputeEnvironment"]
    ELSE [payload |-> resp, status |-> "ENABLED", err |-> ""]

\* A status refresh function that treats an empty result set as the delete
\* poll does.
BatchStatusRefreshFunc_EmptyIsDeleted(resp) ==
    IF resp.err # ""
    THEN [payload |-> Nil, status |-> "failed", err |-> resp.err]
    ELSE IF Len(resp.items) = 0
    THEN [payload |-> resp, status |-> "DELETED", err |-> ""]
    ELSE [payload |-> resp, status |-> resp.items[1], err |-> ""]

\* The refresh function of the status polls.
BatchStatusRefreshFunc(resp) ==
    IF resp.err # ""
    THEN [payload |-> Nil, status |-> "failed", err |-> resp.err]
    ELSE IF Len(resp.items) = 0
    THEN [payload |-> Nil, status |-> "failed", err |-> "NoComputeEnvironment"]
    ELSE [payload |-> resp, status |-> resp.items[1], err |-> ""]

\* A delete refresh function that treats an empty result set as the status
\* polls do.
BatchDeleteRefreshFunc_EmptyIsError(resp) ==
    IF resp.err # ""
    THEN [payload |-> Nil, status |-> "failed", err |-> resp.err]
    ELSE IF Len(resp.items) = 0
    THEN [payload |-> Nil, status |-> "failed", err |-> "NoComputeEnvironment"]
    ELSE [payload |-> resp, status |-> resp.items[1], err |-> ""]

\* The refresh function of the delete poll.
BatchDeleteRefreshFunc(resp) ==
    IF resp.err # ""
    THEN [payload |-> Nil, status |-> "failed", err |-> resp.err]
    ELSE IF Len(resp.items) = 0
    THEN [payload |-> resp, status |-> "DELETED", err |-> ""]
    ELSE [payload |-> resp, status |-> resp.items[1], err |-> ""]

\* A create poll with Pending and Target exchanged.
BatchCreateConf_Swapped ==
    StateChangeConf({"VALID"}, {"CREATING"}, "BatchStatus", PollTimeout)

\* A create poll that takes INVALID for a status still in progress.
BatchCreateConf_InvalidPending ==
    StateChangeConf({"CREATING", "INVALID"}, {"VALID"}, "BatchStatus", PollTimeout)

BatchCreateConf ==
    StateChangeConf({"CREATING"}, {"VALID"}, "BatchStatus", PollTimeout)

BatchUpdateConf ==
    StateChangeConf({"UPDATING"}, {"VALID"}, "BatchStatus", PollTimeout)

BatchDisableConf ==
    StateChangeConf({"UPDATING"}, {"VALID"}, "BatchStatus", PollTimeout)

BatchDeleteConf ==
    StateChangeConf({"DELETING"}, {"DELETED"}, "BatchDelete", PollTimeout)

\* Create, up to the request: the name is chosen and recorded, and a MANAGED
\* environment needs its compute_resources block.
BatchCreateBuild ==
    /\ Batch("create", "begin")
    /\ \E nm \in Names, ty \in {"MANAGED", "UNMANAGED"}, cr \in BOOLEAN :
         /\ d' = [d EXCEPT !.name = nm]
         /\ cfg' = [cfg EXCEPT !.ceType = ty, !.hasCR = cr]
         /\ IF ty = "MANAGED" /\ ~cr THEN Return("err")
                                      ELSE pc' = "submit" /\ ret' = ret
    /\ UNCHANGED <<res, op, remote, sess, lastResp, log, hist>>

\* CreateComputeEnvironment, then SetId and the poll for VALID.
BatchCreateSubmit ==
    /\ Batch("create", "submit")
    /\ \E ok \in Outcomes :
         /\ log' = Append(log, Request("CreateComputeEnvironment", ok))
         /\ IF ok
            THEN /\ d' = [d EXCEPT !.id = d.name]
                 /\ remote' = "present"
                 /\ hist' = [hist EXCEPT !.created = TRUE]
                 /\ sess' = WaitForState(BatchCreateConf)
                 /\ pc' = "wait"
                 /\ ret' = ret
            ELSE /\ Return("err")
                 /\ UNCHANGED <<d, remote, hist, sess>>
    /\ UNCHANGED <<res, op, cfg, lastResp>>

\* A Create that forgets the ID when its poll fails.
BatchCreateWaited_ClearsId ==
    /\ Batch("create", "wait")
    /\ sess.result # "none"
    /\ IF sess.result = "ok" THEN pc' = "read" /\ ret' = ret /\ d' = d
                             ELSE Return("err") /\ d' = [d EXCEPT !.id = ""]
    /\ sess' = IdleSession
    /\ lastResp' = NoResponse
    /\ hist' = [hist EXCEPT !.polled = sess.result, !.pollErr = sess.errCode]
    /\ UNCHANGED <<res, op, cfg, remote, log>>

\* WaitForState has returned to Create.
BatchCreateWaited ==
    /\ Batch("create", "wait")
    /\ sess.result # "none"
    /\ IF sess.result = "ok" THEN pc' = "read" /\ ret' = ret
                             ELSE Return("err")
    /\ sess' = IdleSession
    /\ lastResp' = NoResponse
    /\ hist' = [hist EXCEPT !.polled = sess.result, !.pollErr = sess.errCode]
    /\ UNCHANGED <<res, op, d, cfg, remote, log>>

\* A Read that takes a describe error for the absence of the environment.
BatchRead_ErrorIsAbsent ==
    /\ \/ Batch("create", "read") \/ Batch("update", "read") \/ Batch("read", "begin")
    /\ \E resp \in DescribeResponses(res) :
         /\ lastResp' = resp
         /\ hist' = [hist EXCEPT !.readInvoked = TRUE]
         /\ IF resp.err # "" \/ Len(resp.items) = 0
            THEN Return("ok") /\ d' = [d EXCEPT !.id = ""]
            ELSE Return("ok") /\ d' = [d EXCEPT !.status = resp.items[1]]
    /\ cfg' = AfterTagStep(cfg)
    /\ UNCHANGED <<res, op, remote, sess, log>>

\* Read: describe the environment by its name and hydrate the local state.
BatchRead ==
    /\ \/ Batch("create", "read") \/ Batch("update", "read") \/ Batch("read", "begin")
    /\ \E resp \in DescribeResponses(res) :
         /\ lastResp' = resp
         /\ hist' = [hist EXCEPT !.readInvoked = TRUE]
         /\ IF resp.err # ""
            THEN Return("err") /\ d' = d
            ELSE IF Len(resp.items) = 0
            THEN Return("ok") /\ d' = [d EXCEPT !.id = ""]
            ELSE Return("ok") /\ d' = [d EXCEPT !.status = resp.items[1]]
    /\ cfg' = AfterTagStep(cfg)
    /\ UNCHANGED <<res, op, remote, sess, log>>

\* Update, first part: UpdateComputeEnvironment and the poll for VALID, when
\* compute_resources, service_role or state changed.
BatchUpdateSubmit ==
    /\ Batch("update", "begin")
    /\ \E ch \in BOOLEAN, crCh \in BOOLEAN, cr \in BOOLEAN :
         /\ crCh => ch
         /\ cfg' = [cfg EXCEPT !.changed = ch, !.crChanged = crCh, !.hasCR = cr]
         /\ IF ~ch
            THEN pc' = "tags" /\ UNCHANGED <<ret, log, sess>>
            ELSE IF crCh /\ ~cr
            THEN Return("err") /\ UNCHANGED <<log, sess>>
            ELSE \E ok \in Outcomes :
                   /\ log' = Append(log, Request("UpdateComputeEnvironment", ok))
                   /\ IF ok
                      THEN /\ sess' = WaitForState(BatchUpdateConf)
                           /\ pc' = "wait"
                           /\ ret' = ret
                      ELSE Return("err") /\ sess' = sess
    /\ UNCHANGED <<res, op, d, remote, lastResp, hist>>

\* An Update that goes on to the tag step whatever its poll returned.
BatchUpdateWaited_IgnoresError ==
    /\ Batch("update", "wait")
    /\ sess.result # "none"
    /\ pc' = "tags" /\ ret' = ret
    /\ sess' = IdleSession
    /\ lastResp' = NoResponse
    /\ hist' = [hist EXCEPT !.polled = sess.result, !.pollErr = sess.errCode]
    /\ UNCHANGED <<res, op, d, cfg, remote, log>>

\* WaitForState has returned to Update.
BatchUpdateWaited ==
    /\ Batch("update", "wait")
    /\ sess.result # "none"
    /\ IF sess.result = "ok" THEN pc' = "tags" /\ ret' = ret
                             ELSE Return("err")
    /\ sess' = IdleSession
    /\ lastResp' = NoResponse
    /\ hist' = [hist EXCEPT !.polled = sess.result, !.pollErr = sess.errCode]
    /\ UNCHANGED <<res, op, d, cfg, remote, log>>

\* The old and the new value handed over in the wrong order.
BatchTagsAllChange_Swapped(o, n) == [o |-> n, n |-> o]

\* The old and the new value of tags_all that Update hands to the tag update.
BatchTagsAllChange(o, n) == [o |-> o, n |-> n]

\* Update, second part: the tag update, when tags_all changed.
BatchUpdateTagsStep ==
    /\ Batch("update", "tags")
    /\ \E o \in TagMaps, n \in TagMaps :
         LET ch == BatchTagsAllChange(o, n)
             req == UpdateTagsRequest(ch.o, ch.n)
         IN  IF o = n
             THEN /\ o = NoTags
                  /\ pc' = "read"
                  /\ UNCHANGED <<cfg, ret, log>>
             ELSE \E ok \in UpdateTagsOutcomes(req) :
                   /\ cfg' = [cfg EXCEPT !.tagsChanged = TRUE, !.o = o, !.n = n,
                                          !.tagRequest = req]
                   /\ log' = log \o UpdateTagsCalls(req, ok)
                   /\ IF ok = "ok" THEN pc' = "read" /\ ret' = ret
                                   ELSE Return("err")
    /\ UNCHANGED <<res, op, d, remote, sess, lastResp, hist>>

\* Delete, first part (disableBatchComputeEnvironment): the environment is
\* set to DISABLED and polled until VALID.
BatchDisableSubmit ==
    /\ Batch("delete", "begin")
    /\ \E ok \in Outcomes :
         /\ log' = Append(log, Request("UpdateComputeEnvironment", ok))
         /\ IF ok
            THEN /\ sess' = WaitForState(BatchDisableConf)
                 /\ pc' = "disable_wait"
                 /\ ret' = ret
            ELSE Return("err") /\ sess' = sess
    /\ UNCHANGED <<res, op, d, cfg, remote, lastResp, hist>>

\* A Delete that goes on whatever the disable poll returned.
BatchDisableWaited_IgnoresError ==
    /\ Batch("delete", "disable_wait")
    /\ sess.result # "none"
    /\ pc' = "delete" /\ ret' = ret
    /\ sess' = IdleSession
    /\ lastResp' = NoResponse
    /\ hist' = [hist EXCEPT !.polled = sess.result, !.pollErr = sess.errCode]
    /\ UNCHANGED <<res, op, d, cfg, remote, log>>

BatchDisableWaited ==
    /\ Batch("delete", "disable_wait")
    /\ sess.result # "none"
    /\ IF sess.result = "ok" THEN pc' = "delete" /\ ret' = ret
                             ELSE Return("err")
    /\ sess' = IdleSession
    /\ lastResp' = NoResponse
    /\ hist' = [hist EXCEPT !.polled = sess.result, !.pollErr = sess.errCode]
    /\ UNCHANGED <<res, op, d, cfg, remote, log>>

\* Delete, second part (deleteBatchComputeEnvironment): the environment is
\* deleted and polled until DELETED.
BatchDeleteSubmit ==
    /\ Batch("delete", "delete")
    /\ \E ok \in Outcomes :
         /\ log' = Append(log, Request("DeleteComputeEnvironment", ok))
         /\ IF ok
            THEN /\ sess' = WaitForState(BatchDeleteConf)
                 /\ pc' = "delete_wait"
                 /\ ret' = ret
            ELSE Return("err") /\ sess' = sess
    /\ UNCHANGED <<res, op, d, cfg, remote, lastResp, hist>>

BatchDeleteWaited ==
    /\ Batch("delete", "delete_wait")
    /\ sess.result # "none"
    /\ IF sess.result = "ok" THEN Return("ok") ELSE Return("err")
    /\ sess' = IdleSession
    /\ lastResp' = NoResponse
    /\ hist' = [hist EXCEPT !.polled = sess.result, !.pollErr = sess.errCode]
    /\ UNCHANGED <<res, op, d, cfg, remote, log>>

----------------------------------------------------------------------------
(* Load Balancer *)

Lb(o, at) == res = "lb" /\ op = o /\ pc = at

\* The IDs a load balancer can have: the ARN that CreateLoadBalancer returned,
\* or whatever ID an import passed through.
LbArns == {"arn:loadbalancer/app/n1/b26e", "n1"}

\* An ARN split at its slashes.
ArnSegments(arn) ==
    IF arn = "arn:loadbalancer/app/n1/b26e"
    THEN <<"arn:loadbalancer", "app", "n1", "b26e">>
    ELSE <<arn>>

\* getLbNameFromArn: the last three segments of the ARN; an ARN with fewer
\* than three segments is an error.
getLbNameFromArn(arn) ==
    LET seg == ArnSegments(arn)
        k == Len(seg)
    IN  IF k >= 3 THEN [name |-> SubSeq(seg, k - 2, k), err |-> FALSE]
                  ELSE [name |-> <<>>, err |-> TRUE]

\* Import (ImportStatePassthrough): the supplied ID becomes the local ID.
LbImport ==
    /\ res = "lb" /\ op = "none" /\ d.id = "" /\ remote = "present"
    /\ \E arn \in LbArns : d' = [d EXCEPT !.id = arn, !.name = arn]
    /\ UNCHANGED <<res, op, pc, cfg, remote, sess, lastResp, ret, log, hist>>

\* finder.LoadBalancerByARN and the refresh function of waiter.LoadBalancerActive:
\* exactly one load balancer is expected.
LbStatusRefreshFunc(resp) ==
    IF resp.err # ""
    THEN [payload |-> Nil, status |-> "", err |-> resp.err]
    ELSE IF Len(resp.items) # 1
    THEN [payload |-> Nil, status |-> "", err |-> "NotExactlyOne"]
    ELSE [payload |-> resp, status |-> resp.items[1], err |-> ""]

\* waiter.LoadBalancerActive
LbActiveConf ==
    StateChangeConf({"provisioning"}, {"active"}, "LbStatus", PollTimeout)

\* A check that only rejects an empty response.
LbCreateReturnedOne_NotEmpty(count) == count >= 1

\* Create accepts a response that holds exactly one load balancer.
LbCreateReturnedOne(count) == count = 1

\* CreateLoadBalancer; the ID is the ARN of the one load balancer returned.
LbCreateSubmit ==
    /\ Lb("create", "begin")
    /\ \E nm \in {"arn:loadbalancer/app/n1/b26e"}, ok \in Outcomes, count \in 0..2 :
         /\ ~ok => count = 0
         /\ log' = Append(log, Request("CreateLoadBalancer", ok))
         /\ IF ~ok
            THEN Return("err") /\ UNCHANGED <<d, remote, hist, sess>>
            ELSE IF ~LbCreateReturnedOne(count)
            THEN /\ Return("err")
                 /\ remote' = IF count = 0 THEN remote ELSE "present"
                 /\ hist' = [hist EXCEPT !.returned = count]
                 /\ UNCHANGED <<d, sess>>
            ELSE /\ d' = [d EXCEPT !.id = nm, !.name = nm]
                 /\ remote' = "present"
                 /\ hist' = [hist EXCEPT !.created = TRUE, !.returned = count]
                 /\ sess' = WaitForState(LbActiveConf)
                 /\ pc' = "wait"
                 /\ ret' = ret
    /\ UNCHANGED <<res, op, cfg, lastResp>>

\* The load balancer is active: Create goes on with Update.
LbCreateWaited ==
    /\ Lb("create", "wait")
    /\ sess.result # "none"
    /\ IF sess.result = "ok" THEN pc' = "update" /\ ret' = ret
                             ELSE Return("err")
    /\ sess' = IdleSession
    /\ lastResp' = NoResponse
    /\ hist' = [hist EXCEPT !.polled = sess.result, !.pollErr = sess.errCode]
    /\ UNCHANGED <<res, op, d, cfg, remote, log>>

LbInUpdate(at) == Lb("create", at) \/ Lb("update", IF at = "update" THEN "begin" ELSE at)

\* Update, the tags: a tagging attempt that finds no load balancer is retried
\* until the tag propagation timeout.
LbUpdateTags ==
    /\ LbInUpdate("update")
    /\ \E ch \in BOOLEAN :
         /\ cfg' = [cfg EXCEPT !.tagsChanged = ch]
         /\ pc' = IF ch THEN "tags_retry" ELSE "attributes"
    /\ UNCHANGED <<res, op, d, remote, sess, lastResp, ret, log, hist>>

\* A retry function that reports every error as retryable.
LbTagRetryable_AnyError(out) == out # "ok"

\* An error of a tagging attempt that the retry function reports as retryable.
LbTagRetryable(out) == out = "LoadBalancerNotFound"

\* One attempt inside resource.Retry.  When the timeout has fired, Retry
\* returns either a timeout error (for which tfresource.TimedOut holds) or the
\* error of the last attempt.
LbTagAttempt ==
    /\ LbInUpdate("tags_retry")
    /\ \E out \in {"ok", "LoadBalancerNotFound", "Other"} :
         /\ log' = Append(log, Request("UpdateTags", out = "ok"))
         /\ IF out = "ok"
            THEN /\ pc' = "attributes"
                 /\ hist' = [hist EXCEPT !.tagErr = ""]
                 /\ UNCHANGED <<ret, cfg>>
            ELSE IF ~LbTagRetryable(out)
            THEN /\ Return("err")
                 /\ hist' = [hist EXCEPT !.tagErr = out]
                 /\ cfg' = cfg
            ELSE IF cfg.retried >= RetryTimeout
            THEN /\ hist' = [hist EXCEPT !.tagErr = out, !.timedOut = TRUE]
                 /\ \E timedOut \in BOOLEAN :
                      IF timedOut THEN pc' = "tags_final" /\ ret' = ret
                                  ELSE Return("err")
                 /\ cfg' = cfg
            ELSE /\ cfg' = [cfg EXCEPT !.retried = @ + 1]
                 /\ hist' = [hist EXCEPT !.tagErr = out]
                 /\ UNCHANGED <<pc, ret>>
    /\ UNCHANGED <<res, op, d, remote, sess, lastResp>>

\* An attempt after the timeout that is itself retried.
LbTagFinal_Retried ==
    /\ LbInUpdate("tags_final")
    /\ \E out \in {"ok", "LoadBalancerNotFound", "Other"} :
         /\ log' = Append(log, Request("UpdateTags", out = "ok"))
         /\ hist' = [hist EXCEPT !.tagErr = IF out = "ok" THEN "" ELSE out,
                                  !.late = @ + 1]
         /\ IF out = "ok" THEN pc' = "attributes" /\ ret' = ret
            ELSE IF out = "Other" THEN Return("err")
            ELSE UNCHANGED <<pc, ret>>
    /\ UNCHANGED <<res, op, d, cfg, remote, sess, lastResp>>

\* tfresource.TimedOut: one more attempt, whose error is returned.
LbTagFinal ==
    /\ LbInUpdate("tags_final")
    /\ \E out \in {"ok", "LoadBalancerNotFound", "Other"} :
         /\ log' = Append(log, Request("UpdateTags", out = "ok"))
         /\ hist' = [hist EXCEPT !.tagErr = IF out = "ok" THEN "" ELSE out,
                                  !.late = @ + 1]
         /\ IF out = "ok" THEN pc' = "attributes" /\ ret' = ret ELSE Return("err")
    /\ UNCHANGED <<res, op, d, cfg, remote, sess, lastResp>>

\* One optional request of Update: issued when `issue`, and a failure ends
\* Update.
LbUpdateRequest(at, call, issue, next) ==
    /\ LbInUpdate(at)
    /\ IF issue
       THEN \E ok \in Outcomes :
              /\ log' = Append(log, Request(call, ok))
              /\ IF ok THEN pc' = next /\ ret' = ret ELSE Return("err")
       ELSE pc' = next /\ UNCHANGED <<ret, log>>
    /\ UNCHANGED <<res, op, d, cfg, remote, sess, lastResp, hist>>

\* The attributes: a new resource always sets some.
LbUpdateAttributes ==
    \E ch \in BOOLEAN :
        LbUpdateRequest("attributes", "ModifyLoadBalancerAttributes",
                        ch \/ d.isNew, "security_groups")

LbUpdateSecurityGroups ==
    \E ch \in BOOLEAN :
        LbUpdateRequest("security_groups", "SetSecurityGroups", ch, "subnets")

\* A guard that looks at the change of the subnets only.
LbSetSubnetsIssued_AnyChange(changed, isNew) == changed

\* SetSubnets is issued when the subnets changed, unless the resource is new:
\* the subnets of a new resource were assigned by the create request.
LbSetSubnetsIssued(changed, isNew) == changed /\ ~isNew

LbUpdateSubnets ==
    /\ LbInUpdate("subnets")
    /\ \E ch \in BOOLEAN :
         /\ cfg' = [cfg EXCEPT !.diff = @ \cup (IF ch THEN {"subnets"} ELSE {})]
         /\ IF LbSetSubnetsIssued(ch, d.isNew)
            THEN \E ok \in Outcomes :
                   /\ log' = Append(log, Request("SetSubnets", ok))
                   /\ IF ok THEN pc' = "ip_address_type" /\ ret' = ret
                            ELSE Return("err")
            ELSE pc' = "ip_address_type" /\ UNCHANGED <<ret, log>>
    /\ UNCHANGED <<res, op, d, remote, sess, lastResp, hist>>

LbUpdateIpAddressType ==
    \E ch \in BOOLEAN :
        LbUpdateRequest("ip_address_type", "SetIpAddressType", ch, "wait_active")

\* Update waits for the load balancer to be active again.
LbUpdateWait ==
    /\ LbInUpdate("wait_active")
    /\ sess' = WaitForState(LbActiveConf)
    /\ pc' = "update_wait"
    /\ UNCHANGED <<res, op, d, cfg, remote, lastResp, ret, log, hist>>

LbUpdateWaited ==
    /\ LbInUpdate("update_wait")
    /\ sess.result # "none"
    /\ IF sess.result = "ok" THEN pc' = "read" /\ ret' = ret
                             ELSE Return("err")
    /\ sess' = IdleSession
    /\ lastResp' = NoResponse
    /\ hist' = [hist EXCEPT !.polled = sess.result, !.pollErr = sess.errCode]
    /\ UNCHANGED <<res, op, d, cfg, remote, log>>

\* A Read that removes a load balancer that is gone, new or not.
LbReadRemovesGone_Always(isNew) == TRUE

\* Whether Read removes from the state a load balancer that is gone: not one
\* that this very operation created.
LbReadRemovesGone(isNew) == ~isNew

\* Read: a load balancer that is gone is removed from the state, unless it was
\* created by this very operation.
LbRead ==
    /\ \/ LbInUpdate("read") \/ Lb("read", "begin")
    /\ \E resp \in DescribeResponses(res) :
         LET lb == LbStatusRefreshFunc(resp)
         IN  /\ lastResp' = resp
             /\ hist' = [hist EXCEPT !.readInvoked = TRUE]
             /\ IF LbReadRemovesGone(d.isNew) /\ resp.err = "LoadBalancerNotFound"
                THEN Return("ok") /\ d' = [d EXCEPT !.id = ""]
                ELSE IF resp.err # "" \/ Len(resp.items) > 1
                THEN Return("err") /\ d' = d
                ELSE IF Len(resp.items) = 0
                THEN IF LbReadRemovesGone(d.isNew)
                     THEN Return("ok") /\ d' = [d EXCEPT !.id = ""]
                     ELSE Return("err") /\ d' = d
                ELSE Return("ok") /\ d' = [d EXCEPT !.status = lb.status]
    /\ UNCHANGED <<res, op, cfg, remote, sess, log>>

\* Delete: DeleteLoadBalancer, then the cleanup of the network interfaces,
\* whose failures are logged and not returned.
LbDeleteSubmit ==
    /\ Lb("delete", "begin")
    /\ \E ok \in Outcomes :
         /\ log' = Append(log, Request("DeleteLoadBalancer", ok))
         /\ IF ok THEN pc' = "cleanup" /\ ret' = ret ELSE Return("err")
    /\ UNCHANGED <<res, op, d, cfg, remote, sess, lastResp, hist>>

\* cleanupLBNetworkInterfaces: the interfaces of the load balancer are
\* described, detached and deleted; the first failure ends the cleanup.
LbCleanupOutcomes ==
    {"describe failed", "none found", "detach failed", "delete failed", "ok"}

LbCleanupCalls(out) ==
    <<Request("DescribeNetworkInterfaces", out # "describe failed")>>
    \o (IF out \in {"detach failed", "delete failed", "ok"}
        THEN <<Request("DetachNetworkInterface", out # "detach failed")>> ELSE <<>>)
    \o (IF out \in {"delete failed", "ok"}
        THEN <<Request("DeleteNetworkInterface", out = "ok")>> ELSE <<>>)

\* A Delete that returns the error of a cleanup step.
LbCleanupError_Returned(failed) == failed

\* Whether Delete returns the error of a cleanup step: it only logs it.
LbCleanupError(failed) == FALSE

\* Delete after a cleanup step: it goes on, or returns success after the last.
LbAfterCleanupStep(failed, next) ==
    IF LbCleanupError(failed) THEN Return("err")
    ELSE IF next = "done" THEN Return("ok")
    ELSE pc' = next /\ ret' = ret

LbCleanupNetworkInterfaces ==
    /\ Lb("delete", "cleanup")
    /\ IF getLbNameFromArn(d.id).err
       THEN /\ hist' = [hist EXCEPT !.cleanup = "err"]
            /\ LbAfterCleanupStep(TRUE, "detach")
            /\ log' = log
       ELSE \E out \in LbCleanupOutcomes :
              /\ log' = log \o LbCleanupCalls(out)
              /\ hist' = [hist EXCEPT
                     !.cleanup = IF out \in {"none found", "ok"} THEN "ok" ELSE "err"]
              /\ LbAfterCleanupStep(out \notin {"none found", "ok"}, "detach")
    /\ UNCHANGED <<res, op, d, cfg, remote, sess, lastResp>>

\* A wait that retries a describe call that failed.
LbDetachRetryable_AnyFailure(out) == out # "gone"

\* The attempt of the wait that is retried: the describe call found network
\* interfaces (a describe error is not retried).
LbDetachRetryable(out) == out = "found"

\* waitForNLBNetworkInterfacesToDetach: one attempt inside resource.Retry.
\* Interfaces that are still there are retried until the detach timeout; when
\* it has fired, Retry returns either a timeout error (for which
\* tfresource.TimedOut holds) or the error of the last attempt.
LbWaitForNetworkInterfacesToDetach ==
    /\ Lb("delete", "detach")
    /\ IF getLbNameFromArn(d.id).err
       THEN /\ hist' = [hist EXCEPT !.detach = "err"]
            /\ LbAfterCleanupStep(TRUE, "done")
            /\ UNCHANGED <<log, cfg>>
       ELSE \E out \in {"failed", "found", "gone"} :
              /\ log' = Append(log, Request("DescribeNetworkInterfaces", out # "failed"))
              /\ IF LbDetachRetryable(out) /\ cfg.retried < RetryTimeout
                 THEN /\ cfg' = [cfg EXCEPT !.retried = @ + 1]
                      /\ hist' = [hist EXCEPT !.niSeen = out]
                      /\ UNCHANGED <<pc, ret>>
                 ELSE IF LbDetachRetryable(out)
                 THEN /\ cfg' = cfg
                      /\ \E timedOut \in BOOLEAN :
                           IF timedOut
                           THEN /\ pc' = "detach_final" /\ ret' = ret
                                /\ hist' = [hist EXCEPT !.timedOut = TRUE,
                                                         !.niSeen = out]
                           ELSE /\ LbAfterCleanupStep(TRUE, "done")
                                /\ hist' = [hist EXCEPT !.timedOut = TRUE,
                                                         !.niSeen = out,
                                                         !.detach = "err"]
                 ELSE /\ cfg' = cfg
                      /\ hist' = [hist EXCEPT
                             !.niSeen = out,
                             !.detach = IF out = "gone" THEN "ok" ELSE "err"]
                      /\ LbAfterCleanupStep(out = "failed", "done")
    /\ UNCHANGED <<res, op, d, remote, sess, lastResp>>

\* tfresource.TimedOut: the interfaces are described once more.
LbDetachFinal ==
    /\ Lb("delete", "detach_final")
    /\ \E out \in {"failed", "found", "gone"} :
         /\ log' = Append(log, Request("DescribeNetworkInterfaces", out # "failed"))
         /\ hist' = [hist EXCEPT !.late = @ + 1,
                                  !.niSeen = out,
                                  !.detach = IF out = "gone" THEN "ok" ELSE "err"]
         /\ LbAfterCleanupStep(out # "gone", "done")
    /\ UNCHANGED <<res, op, d, cfg, remote, sess, lastResp>>

----------------------------------------------------------------------------
(* SSM document *)

Ssm(o, at) == res = "ssm" /\ op = o /\ pc = at

\* The refresh function of waiter.DocumentActive and waiter.DocumentDeleted:
\* DescribeDocument, whose error (InvalidDocument for a document that does
\* not exist) ends the session.
SsmDocumentStatus(resp) ==
    IF resp.err # ""
    THEN [payload |-> Nil, status |-> "", err |-> resp.err]
    ELSE IF Len(resp.items) # 1
    THEN [payload |-> Nil, status |-> "", err |-> "NotExactlyOne"]
    ELSE [payload |-> resp, status |-> resp.items[1], err |-> ""]

\* waiter.DocumentActive
SsmActiveConf ==
    StateChangeConf({"Creating", "Updating"}, {"Active"}, "SsmStatus", PollTimeout)

\* waiter.DocumentDeleted
SsmDeletedConf ==
    StateChangeConf({"Deleting"}, {}, "SsmStatus", PollTimeout)

\* The permissions maps a configuration can hold.
PermissionsConfigs ==
    {NoPermissions}
        \cup [set : {TRUE}, type : {"", "Share", "Other"}, ids : BOOLEAN]

\* A validation that does not look at account_ids.
validateSSMDocumentPermissions_TypeOnly(v) ==
    (IF v.type # "" /\ v.type # "Share" THEN {"only Share type supported"} ELSE {})
        \cup (IF v.type = "" THEN {"type must be defined"} ELSE {})

\* validateSSMDocumentPermissions: "type" must be defined and be Share, and
\* "account_ids" must be defined.
validateSSMDocumentPermissions(v) ==
    (IF v.type # "" /\ v.type # "Share" THEN {"only Share type supported"} ELSE {})
        \cup (IF v.type = "" THEN {"type must be defined"} ELSE {})
        \cup (IF ~v.ids THEN {"account_ids must be defined"} ELSE {})

\* Create and Update begin by validating the permissions.
SsmValidate ==
    /\ Ssm("create", "begin") \/ Ssm("update", "begin")
    /\ \E v \in PermissionsConfigs :
         /\ cfg' = [cfg EXCEPT !.permissions = v]
         /\ IF v.set /\ validateSSMDocumentPermissions(v) # {}
            THEN Return("err")
            ELSE pc' = (IF op = "create" THEN "submit" ELSE "tags") /\ ret' = ret
    /\ UNCHANGED <<res, op, d, remote, sess, lastResp, log, hist>>

\* CreateDocument; the ID is the name of the document returned.
SsmCreateSubmit ==
    /\ Ssm("create", "submit")
    /\ \E nm \in {"n1"}, ok \in Outcomes :
         /\ log' = Append(log, Request("CreateDocument", ok))
         /\ IF ok
            THEN /\ d' = [d EXCEPT !.id = nm, !.name = nm]
                 /\ remote' = "present"
                 /\ hist' = [hist EXCEPT !.created = TRUE]
                 /\ pc' = "permissions"
                 /\ ret' = ret
            ELSE Return("err") /\ UNCHANGED <<d, remote, hist>>
    /\ UNCHANGED <<res, op, cfg, sess, lastResp>>

SSM_DOCUMENT_PERMISSIONS_BATCH_LIMIT == 20

\* A list handed to modifyDocumentPermissions: nil, or the account ids.
NilList == [nil |-> TRUE, ids |-> <<>>]
List(ids) == [nil |-> FALSE, ids |-> ids]

\* Batches that lose the id at which a full batch is closed.
Batches_DropAtLimit(ids) ==
    LET RECURSIVE Loop(_, _, _)
        Loop(i, batch, batches) ==
            IF i > Len(ids) THEN Append(batches, batch)
            ELSE IF Len(batch) = SSM_DOCUMENT_PERMISSIONS_BATCH_LIMIT
            THEN Loop(i + 1, <<>>, Append(batches, batch))
            ELSE Loop(i + 1, Append(batch, ids[i]), batches)
    IN  Loop(1, <<>>, <<>>)

\* The batches of modifyDocumentPermissions: a batch is closed when it holds
\* SSM_DOCUMENT_PERMISSIONS_BATCH_LIMIT ids and another id comes, and the batch
\* being filled when the list ends is closed, empty or not.
Batches(ids) ==
    LET RECURSIVE Loop(_, _, _)
        Loop(i, batch, batches) ==
            IF i > Len(ids) THEN Append(batches, batch)
            ELSE IF Len(batch) = SSM_DOCUMENT_PERMISSIONS_BATCH_LIMIT
            THEN Loop(i + 1, <<ids[i]>>, Append(batches, batch))
            ELSE Loop(i + 1, Append(batch, ids[i]), batches)
    IN  Loop(1, <<>>, <<>>)

\* The requests modifyDocumentPermissions would issue if none failed: one for
\* each batch of the ids to add, then one for each batch of the ids to remove;
\* a nil list gives none.
ModifyDocumentPermissionRequests(toAdd, toRemove) ==
    LET add == IF toAdd.nil THEN <<>> ELSE Batches(toAdd.ids)
        rem == IF toRemove.nil THEN <<>> ELSE Batches(toRemove.ids)
    IN  [i \in 1..Len(add) |->
            RequestWith("ModifyDocumentPermission", TRUE, "AccountIdsToAdd", add[i])]
        \o [i \in 1..Len(rem) |->
            RequestWith("ModifyDocumentPermission", TRUE, "AccountIdsToRemove", rem[i])]

\* modifyDocumentPermissions, the request failAt failing (0: none fails): the
\* requests issued, the failing one being the last.
modifyDocumentPermissions(toAdd, toRemove, failAt) ==
    LET all == ModifyDocumentPermissionRequests(toAdd, toRemove)
    IN  IF failAt = 0
        THEN all
        ELSE [i \in 1..failAt |-> IF i = failAt THEN [all[i] EXCEPT !.ok = FALSE]
                                                ELSE all[i]]

\* A string is the sequence of its characters; account ids are made of the
\* letters, and the comma joins them.
Chars == {"a", "b", ","}

\* The longest account_ids string of a permissions map.
MaxStringLen == 3

Strings == UNION {[1..n -> Chars] : n \in 0..MaxStringLen}

\* The "account_ids" entry of a permissions map: whether the key is there, and
\* its string.
AccountIdsEntries ==
    {[has |-> FALSE, value |-> <<>>]} \cup [has : {TRUE}, value : Strings]

\* strings.Split(s, ","): the parts of s between its commas; a string with no
\* comma, the empty one too, is its only part.
RECURSIVE Split(_)
Split(s) ==
    IF \A i \in 1..Len(s) : s[i] # ","
    THEN <<s>>
    ELSE LET i == CHOOSE k \in 1..Len(s) :
                      s[k] = "," /\ \A j \in 1..(k - 1) : s[j] # ","
         IN  <<SubSeq(s, 1, i - 1)>> \o Split(SubSeq(s, i + 1, Len(s)))

\* The account ids of a permissions map: none when the key is missing or its
\* string is empty, the parts of the string otherwise.
PermissionsAccountIds(e) ==
    IF e.has /\ e.value # <<>> THEN Split(e.value) ELSE <<>>

sliceContainsString(slice, x) == \E i \in 1..Len(slice) : slice[i] = x

\* A diff by position: the new ids that are not at their place in the old
\* list.
accountIdsToAdd_Positional(old, new) ==
    LET idx == {i \in 1..Len(new) : i > Len(old) \/ old[i] # new[i]}
        RECURSIVE Pick(_)
        Pick(i) == IF i > Len(new) THEN <<>>
                   ELSE (IF i \in idx THEN <<new[i]>> ELSE <<>>) \o Pick(i + 1)
    IN  Pick(1)

\* The old account ids that are not among the new ones, in their order.
accountIdsToRemove(old, new) ==
    SelectSeq(old, LAMBDA x : ~sliceContainsString(new, x))

\* The new account ids that are not among the old ones, in their order.
accountIdsToAdd(old, new) ==
    SelectSeq(new, LAMBDA x : ~sliceContainsString(old, x))

\* The "account_ids" entries the handlers are run with: no key, the empty
\* string, one account id.
NoAccountIds == [has |-> FALSE, value |-> <<>>]

HandlerAccountIdsEntries ==
    {NoAccountIds, [has |-> TRUE, value |-> <<>>], [has |-> TRUE, value |-> <<"a">>]}

\* setDocumentPermissions, when Create has permissions or Update changes them:
\* the account ids to add and to remove are computed from the old and the new
\* permissions map and handed to modifyDocumentPermissions, neither list
\* being nil.  Then Create waits for the document to be active.
SsmSetPermissions ==
    /\ Ssm("create", "permissions") \/ Ssm("update", "permissions")
    /\ \E ch \in BOOLEAN, o \in HandlerAccountIdsEntries,
          n \in HandlerAccountIdsEntries :
         LET old == PermissionsAccountIds(o)
             new == PermissionsAccountIds(n)
             toAdd == List(accountIdsToAdd(old, new))
             toRemove == List(accountIdsToRemove(old, new))
             all == ModifyDocumentPermissionRequests(toAdd, toRemove)
         IN  /\ op = "create" => (ch = cfg.permissions.set) /\ o = NoAccountIds
             /\ n.has = (cfg.permissions.set /\ cfg.permissions.ids)
             /\ IF ch THEN o # n ELSE o = NoAccountIds /\ n.value = <<>>
             /\ \E failAt \in 0..(IF ch THEN Len(all) ELSE 0) :
                  /\ log' = IF ch
                            THEN log \o modifyDocumentPermissions(toAdd, toRemove, failAt)
                            ELSE log
                  /\ IF failAt # 0
                     THEN Return("err") /\ sess' = sess
                     ELSE IF op = "create"
                     THEN /\ sess' = WaitForState(SsmActiveConf)
                          /\ pc' = "wait"
                          /\ ret' = ret
                     ELSE pc' = "document" /\ UNCHANGED <<ret, sess>>
             /\ cfg' = [AfterTagStep(cfg) EXCEPT
                           !.diff = @ \cup (IF ch THEN {"permissions"} ELSE {})]
    /\ UNCHANGED <<res, op, d, remote, lastResp, hist>>

\* waiter.DocumentActive has returned to Create or Update.
SsmActiveWaited ==
    /\ Ssm("create", "wait") \/ Ssm("update", "wait")
    /\ sess.result # "none"
    /\ IF sess.result = "ok" THEN pc' = "read" /\ ret' = ret
                             ELSE Return("err")
    /\ sess' = IdleSession
    /\ lastResp' = NoResponse
    /\ hist' = [hist EXCEPT !.polled = sess.result, !.pollErr = sess.errCode]
    /\ UNCHANGED <<res, op, d, cfg, remote, log>>

\* Read: DescribeDocument, then GetDocument and the permissions.  A document
\* that does not exist is removed from the state.
SsmRead ==
    /\ \/ Ssm("create", "read") \/ Ssm("update", "read") \/ Ssm("read", "begin")
    /\ \E resp \in DescribeResponses(res), rest \in Outcomes :
         /\ lastResp' = resp
         /\ hist' = [hist EXCEPT !.readInvoked = TRUE]
         /\ IF resp.err = "InvalidDocument"
            THEN Return("ok") /\ d' = [d EXCEPT !.id = ""]
            ELSE IF resp.err # "" \/ Len(resp.items) = 0 \/ ~rest
            THEN Return("err") /\ d' = d
            ELSE Return("ok") /\ d' = [d EXCEPT !.status = resp.items[1]]
    /\ UNCHANGED <<res, op, cfg, remote, sess, log>>

\* Update, the tags: the tag update, when tags_all changed.  tags_all is
\* computed from tags and the default tags of the provider, which stay as
\* they are here: tags and tags_all change together.
SsmUpdateTagsStep ==
    /\ Ssm("update", "tags")
    /\ \E o \in TagMaps, n \in TagMaps :
         LET req == UpdateTagsRequest(o, n)
         IN  IF o = n
             THEN /\ o = NoTags
                  /\ pc' = "permissions"
                  /\ UNCHANGED <<cfg, ret, log>>
             ELSE \E ok \in UpdateTagsOutcomes(req) :
                   /\ cfg' = [cfg EXCEPT !.tagsChanged = TRUE, !.o = o, !.n = n,
                                          !.tagRequest = req,
                                          !.diff = @ \cup {"tags", "tags_all"}]
                   /\ log' = log \o UpdateTagsCalls(req, ok)
                   /\ IF ok = "ok" THEN pc' = "permissions" /\ ret' = ret
                                   ELSE Return("err")
    /\ UNCHANGED <<res, op, d, remote, sess, lastResp, hist>>

\* The root attributes of the document that an Update can find changed, apart
\* from tags, tags_all and permissions, which the earlier steps of Update
\* look at: content, which stands for every attribute that is updated in
\* place.
SsmOtherAttributes == {"content"}

\* d.HasChangesExcept(keys...): some changed root attribute is none of keys.
HasChangesExcept(diff, keys) == diff \ keys # {}

\* The versions updateAwsSSMDocument has at hand: default_version and
\* latest_version of the local state, and the version UpdateDocument returns.
SsmDefaultVersion == <<"1">>
SsmLatestVersion == <<"2">>
SsmUpdatedVersion == <<"3">>

\* A default version that stays what the local state holds.
newDefaultVersion_Unchanged(upd) == SsmDefaultVersion

\* The version updateAwsSSMDocument makes the default one: the version of the
\* update, or the latest version when the content is a duplicate of it.
newDefaultVersion(upd) ==
    IF upd = "DuplicateDocumentContent" THEN SsmLatestVersion ELSE SsmUpdatedVersion

\* A guard that stops every update of a schema version 1.x document.
SsmUpdateNotAllowed_AnyContent(v1, content) == v1

\* The update is not allowed: the document has schema version 1.x and its
\* content did not change.
SsmUpdateNotAllowed(v1, content) == ~content /\ v1

\* Update, the document: nothing is updated for a schema version 1.x document
\* whose content did not change; otherwise updateAwsSSMDocument runs when
\* d.HasChangesExcept("tags", "permissions").
SsmUpdateDocument ==
    /\ Ssm("update", "document")
    /\ \E v1 \in BOOLEAN, more \in SUBSET SsmOtherAttributes,
          upd \in {"ok", "DuplicateDocumentContent", "Other"}, def \in Outcomes :
         LET diff == cfg.diff \cup more
             content == "content" \in diff
             other == HasChangesExcept(diff, {"tags", "permissions"})
         IN  /\ (~other \/ SsmUpdateNotAllowed(v1, content)) => (upd = "ok" /\ def)
             /\ upd = "Other" => def
             /\ cfg' = [cfg EXCEPT !.diff = diff, !.schemaV1 = v1]
             /\ IF SsmUpdateNotAllowed(v1, content)
                THEN Return("ok") /\ UNCHANGED <<log, sess, hist>>
                ELSE IF ~other
                THEN pc' = "read" /\ UNCHANGED <<ret, log, sess, hist>>
                ELSE /\ log' = log \o <<Request("UpdateDocument", upd = "ok")>>
                             \o (IF upd = "Other" THEN <<>>
                                 ELSE <<RequestWith("UpdateDocumentDefaultVersion", def,
                                        "DocumentVersion", <<newDefaultVersion(upd)>>)>>)
                     /\ hist' = [hist EXCEPT !.updateErr = IF upd = "ok" THEN "" ELSE upd]
                     /\ IF upd = "Other" \/ ~def
                        THEN Return("err") /\ sess' = sess
                        ELSE /\ sess' = WaitForState(SsmActiveConf)
                             /\ pc' = "wait"
                             /\ ret' = ret
    /\ UNCHANGED <<res, op, d, remote, lastResp>>

\* A Delete that goes on to DeleteDocument whatever the removal of the
\* permissions returned.
SsmDeletePermissions_IgnoresError ==
    /\ Ssm("delete", "begin")
    /\ \E e \in HandlerAccountIdsEntries :
         LET toRemove == List(PermissionsAccountIds(e))
             all == ModifyDocumentPermissionRequests(NilList, toRemove)
         IN  \E failAt \in 0..(IF e.has THEN Len(all) ELSE 0) :
               /\ log' = IF e.has
                         THEN log \o modifyDocumentPermissions(NilList, toRemove, failAt)
                         ELSE log
               /\ pc' = "delete" /\ ret' = ret
    /\ UNCHANGED <<res, op, d, cfg, remote, sess, lastResp, hist>>

\* Delete, first part (deleteDocumentPermissions): when the permissions map
\* of the local state has account_ids, its ids are handed to
\* modifyDocumentPermissions to be removed, with nil for the ids to add.
SsmDeletePermissions ==
    /\ Ssm("delete", "begin")
    /\ \E e \in HandlerAccountIdsEntries :
         LET toRemove == List(PermissionsAccountIds(e))
             all == ModifyDocumentPermissionRequests(NilList, toRemove)
         IN  \E failAt \in 0..(IF e.has THEN Len(all) ELSE 0) :
               /\ log' = IF e.has
                         THEN log \o modifyDocumentPermissions(NilList, toRemove, failAt)
                         ELSE log
               /\ IF failAt = 0 THEN pc' = "delete" /\ ret' = ret ELSE Return("err")
    /\ UNCHANGED <<res, op, d, cfg, remote, sess, lastResp, hist>>

SsmDeleteSubmit ==
    /\ Ssm("delete", "delete")
    /\ \E ok \in Outcomes :
         /\ log' = Append(log, Request("DeleteDocument", ok))
         /\ IF ok
            THEN /\ sess' = WaitForState(SsmDeletedConf)
                 /\ pc' = "delete_wait"
                 /\ ret' = ret
            ELSE Return("err") /\ sess' = sess
    /\ UNCHANGED <<res, op, d, cfg, remote, lastResp, hist>>

\* waiter.DocumentDeleted has returned: its InvalidDocument error means the
\* document is gone.
SsmDeleteWaited ==
    /\ Ssm("delete", "delete_wait")
    /\ sess.result # "none"
    /\ IF sess.result = "ok" THEN Return("ok")
       ELSE IF sess.result = "error" /\ sess.errCode = "InvalidDocument"
       THEN Return("ok")
       ELSE Return("err")
    /\ sess' = IdleSession
    /\ lastResp' = NoResponse
    /\ hist' = [hist EXCEPT !.polled = sess.result, !.pollErr = sess.errCode]
    /\ UNCHANGED <<res, op, d, cfg, remote, log>>

----------------------------------------------------------------------------
(* The steps of a poll session *)

\* The refresh function a session was given.
Refresh(name, resp) ==
    CASE name = "BatchStatus" -> BatchStatusRefreshFunc(resp)
      [] name = "BatchDelete" -> BatchDeleteRefreshFunc(resp)
      [] name = "LbStatus" -> LbStatusRefreshFunc(resp)
      [] name = "SsmStatus" -> SsmDocumentStatus(resp)

\* One refresh of the running session, and what the session makes of it.
PollRefresh ==
    /\ sess.active /\ sess.phase = "refresh"
    /\ \E resp \in DescribeResponses(res) :
         LET s == PollEvaluate(sess, Refresh(sess.refresh, resp))
         IN  /\ lastResp' = resp
             /\ sess' = [s EXCEPT
                    !.allPending = @ /\ resp.err = "" /\ Len(resp.items) = 1
                                     /\ resp.items[1] \in sess.pending]
             /\ hist' = [hist EXCEPT
                    !.targetSeen = @ \/ (s.result = "ok" /\ resp.err = ""
                                          /\ Len(resp.items) >= 1
                                          /\ resp.items[1] = TargetStatus(res))]
    /\ UNCHANGED <<res, op, pc, d, cfg, remote, ret, log>>

\* The session sleeps until the next refresh is due.
PollSleep ==
    /\ sess.active /\ sess.phase = "sleep"
    /\ sess' = PollBackoff(sess)
    /\ UNCHANGED <<res, op, pc, d, cfg, remote, lastResp, ret, log, hist>>

----------------------------------------------------------------------------

Next ==
    \/ StartCreate \/ StartRead \/ StartUpdate \/ StartDelete \/ Finish
    \/ RemoteVanish \/ BatchImport
    \/ BatchCreateBuild \/ BatchCreateSubmit \/ BatchCreateWaited \/ BatchRead
    \/ BatchUpdateSubmit \/ BatchUpdateWaited \/ BatchUpdateTagsStep
    \/ BatchDisableSubmit \/ BatchDisableWaited
    \/ BatchDeleteSubmit \/ BatchDeleteWaited
    \/ LbCreateSubmit \/ LbCreateWaited
    \/ LbUpdateTags \/ LbTagAttempt \/ LbTagFinal
    \/ LbUpdateAttributes \/ LbUpdateSecurityGroups \/ LbUpdateSubnets
    \/ LbUpdateIpAddressType \/ LbUpdateWait \/ LbUpdateWaited \/ LbRead
    \/ LbImport \/ LbDeleteSubmit \/ LbCleanupNetworkInterfaces
    \/ LbWaitForNetworkInterfacesToDetach \/ LbDetachFinal
    \/ SsmValidate \/ SsmCreateSubmit \/ SsmSetPermissions \/ SsmActiveWaited
    \/ SsmRead \/ SsmUpdateTagsStep \/ SsmUpdateDocument
    \/ SsmDeletePermissions \/ SsmDeleteSubmit \/ SsmDeleteWaited
    \/ PollRefresh \/ PollSleep

Spec == Init /\ [][Next]_vars

\* The steps of the handlers: each is a computation or a remote call that
\* returns, a refresh of a poll session, or a sleep that ends.
HandlerStep ==
    \/ BatchCreateBuild \/ BatchCreateSubmit \/ BatchCreateWaited \/ BatchRead
    \/ BatchUpdateSubmit \/ BatchUpdateWaited \/ BatchUpdateTagsStep
    \/ BatchDisableSubmit \/ BatchDisableWaited
    \/ BatchDeleteSubmit \/ BatchDeleteWaited
    \/ LbCreateSubmit \/ LbCreateWaited
    \/ LbUpdateTags \/ LbTagAttempt \/ LbTagFinal
    \/ LbUpdateAttributes \/ LbUpdateSecurityGroups \/ LbUpdateSubnets
    \/ LbUpdateIpAddressType \/ LbUpdateWait \/ LbUpdateWaited \/ LbRead
    \/ LbDeleteSubmit \/ LbCleanupNetworkInterfaces
    \/ LbWaitForNetworkInterfacesToDetach \/ LbDetachFinal
    \/ SsmValidate \/ SsmCreateSubmit \/ SsmSetPermissions \/ SsmActiveWaited
    \/ SsmRead \/ SsmUpdateTagsStep \/ SsmUpdateDocument
    \/ SsmDeletePermissions \/ SsmDeleteSubmit \/ SsmDeleteWaited
    \/ PollRefresh \/ PollSleep

\* The handlers run on: every remote call returns and every sleep ends.
LiveSpec == Spec /\ WF_vars(HandlerStep)

----------------------------------------------------------------------------
(* The functions of the handlers, applied to inputs of their own *)

FnInit ==
    /\ res \in {"ssm", "lb"}
    /\ op = "none"
    /\ pc = "idle"
    /\ d = NoData
    /\ cfg = NoCfg
    /\ remote = "present"
    /\ sess = IdleSession
    /\ lastResp = NoResponse
    /\ ret = "none"
    /\ log = <<>>
    /\ hist = NoHist

\* The permission diff of setDocumentPermissions, for an old and a new
\* permissions map.
FnPermissionsDiff ==
    /\ res = "ssm" /\ pc = "idle"
    /\ \E o \in AccountIdsEntries, n \in AccountIdsEntries :
         LET old == PermissionsAccountIds(o)
             new == PermissionsAccountIds(n)
         IN  /\ cfg' = [old |-> o, new |-> n]
             /\ hist' = [toAdd |-> accountIdsToAdd(old, new),
                         toRemove |-> accountIdsToRemove(old, new)]
    /\ pc' = "diff"
    /\ UNCHANGED <<res, op, d, remote, sess, lastResp, ret, log>>

\* The longest list of account ids handed to modifyDocumentPermissions.
MaxAccountIds == 41

\* The lists modifyDocumentPermissions is handed: nil, or ids 1..n.
AccountIdLists == {NilList} \cup {List([i \in 1..n |-> i]) : n \in 0..MaxAccountIds}

\* modifyDocumentPermissions, for two lists and the request that fails.
FnModifyDocumentPermissions ==
    /\ res = "ssm" /\ pc = "idle"
    /\ \E toAdd \in AccountIdLists, toRemove \in AccountIdLists :
         \E failAt \in 0..Len(ModifyDocumentPermissionRequests(toAdd, toRemove)) :
            /\ cfg' = [toAdd |-> toAdd, toRemove |-> toRemove]
            /\ log' = modifyDocumentPermissions(toAdd, toRemove, failAt)
            /\ ret' = IF failAt = 0 THEN "ok" ELSE "err"
    /\ pc' = "modify"
    /\ UNCHANGED <<res, op, d, remote, sess, lastResp, hist>>

\* elbv2.LoadBalancerTypeEnum*
LbTypes == {"application", "network", "gateway"}

Subnets == {"s1", "s2"}

\* An old or a new value of subnets in a diff: nil, or a set.
NilSet == [nil |-> TRUE, set |-> {}]
SubnetValues == {NilSet} \cup [nil : {FALSE}, set : SUBSET Subnets]

\* What customizeDiffNLBSubnets does to the diff: the keys it sets a new
\* value for and the keys it marks ForceNew.
NoDiffChange == [setNew |-> {}, forceNew |-> {}]

\* A check that looks at the added subnets only.
customizeDiffNLBSubnets_AddedOnly(lbType, id, o, n) ==
    IF lbType # "network" THEN NoDiffChange
    ELSE IF id = "" THEN NoDiffChange
    ELSE LET os == IF o.nil THEN {} ELSE o.set
             ns == IF n.nil THEN {} ELSE n.set
             add == ns \ os
         IN  IF Cardinality(add) > 0
             THEN [setNew |-> {"subnets"}, forceNew |-> {"subnets"}]
             ELSE NoDiffChange

\* customizeDiffNLBSubnets: for a load balancer of type network that exists,
\* subnets are marked ForceNew when a subnet is removed or added.
customizeDiffNLBSubnets(lbType, id, o, n) ==
    IF lbType # "network" THEN NoDiffChange
    ELSE IF id = "" THEN NoDiffChange
    ELSE LET os == IF o.nil THEN {} ELSE o.set
             ns == IF n.nil THEN {} ELSE n.set
             remove == os \ ns
             add == ns \ os
         IN  IF Cardinality(remove) > 0 \/ Cardinality(add) > 0
             THEN [setNew |-> {"subnets"}, forceNew |-> {"subnets"}]
             ELSE NoDiffChange

\* customizeDiffNLBSubnets, for a type, an ID and a change of the subnets.
FnCustomizeDiffNLBSubnets ==
    /\ res = "lb" /\ pc = "idle"
    /\ \E lbType \in LbTypes, id \in {""} \cup LbArns,
          o \in SubnetValues, n \in SubnetValues :
         /\ cfg' = [lbType |-> lbType, id |-> id, o |-> o, n |-> n]
         /\ hist' = customizeDiffNLBSubnets(lbType, id, o, n)
    /\ pc' = "customize"
    /\ UNCHANGED <<res, op, d, remote, sess, lastResp, ret, log>>

FnNext ==
    \/ FnPermissionsDiff
    \/ FnModifyDocumentPermissions
    \/ FnCustomizeDiffNLBSubnets

FnSpec == FnInit /\ [][FnNext]_vars

----------------------------------------------------------------------------
(* Properties *)

CreateCalls == {"CreateComputeEnvironment", "CreateLoadBalancer", "CreateDocument"}

\* The running handler's create request returned success (for the Load
\* Balancer: with exactly one load balancer).
CreateAccepted ==
    \E i \in 1..Len(log) :
        log[i].call \in CreateCalls /\ log[i].ok /\ hist.returned = 1

\* The running handler's create request returned an error (for the Load
\* Balancer: or a response without exactly one load balancer).
CreateRefused ==
    \E i \in 1..Len(log) :
        log[i].call \in CreateCalls /\ (~log[i].ok \/ hist.returned # 1)

\* The last describe response is one result with status s.
Described(s) == lastResp = Response("", <<s>>)

\* The running session has refreshed, and lastResp is what its last refresh got.
Refreshed == sess.n >= 1

\* C1: in Create the ID is empty until the create request has returned
\* success, and a refused create request makes Create return an error with
\* the ID still empty.
C1_IdOnlyAfterCreateAccepted ==
    op = "create" =>
        /\ d.id # "" => CreateAccepted
        /\ CreateRefused => pc = "done" /\ ret = "err" /\ d.id = ""
        /\ pc = "done" /\ ~CreateAccepted => ret = "err"

C1_Witness ==
    op = "create" /\ pc = "done" /\ CreateRefused /\ ret = "err" /\ d.id = ""

\* C2: Create runs submit, poll, Read in this order: Read is invoked only
\* after a poll has observed the target status, and Create returns success
\* only if the target status was observed after the request was accepted.
C2_ReadOnlyAfterTargetObserved ==
    op = "create" =>
        /\ pc = "read" \/ hist.readInvoked => CreateAccepted /\ hist.targetSeen
        /\ hist.targetSeen => CreateAccepted
        /\ pc = "done" /\ ret = "ok" =>
               CreateAccepted /\ hist.targetSeen /\ hist.readInvoked

C2_Witness ==
    op = "create" /\ pc = "done" /\ ret = "ok" /\ hist.readInvoked /\ hist.targetSeen

\* C3: a refresh that reports a target status, after k refreshes that reported
\* a pending one, ends the session in success with the payload of that
\* refresh, after k sleeps; with k = 0, after one refresh and no sleep.
C3_TargetStatusSucceeds ==
    (Refreshed /\ lastResp.err = "" /\ Len(lastResp.items) = 1
               /\ lastResp.items[1] \in sess.target) =>
        /\ sess.result = "ok" /\ ~sess.active
        /\ sess.payload = lastResp
        /\ sess.sleeps = sess.n - 1
        /\ sess.n = 1 => sess.elapsed = 0

\* Batch Create has seen CREATING three times and then VALID.
C3_Witness ==
    /\ Batch("create", "wait") /\ sess.n = 4 /\ sess.allPending = FALSE
    /\ Described("VALID") /\ sess.result = "ok" /\ sess.elapsed <= sess.timeout

\* C4: a session whose every refresh reports a pending status never
\* succeeds: it goes on only while the timeout has not elapsed and ends in a
\* timeout error carrying the last observed status, no later than the timeout
\* plus one poll interval after its start.
C4_AlwaysPendingTimesOut ==
    (Refreshed /\ sess.allPending) =>
        /\ sess.result \in {"none", "timeout"}
        /\ sess.result = "none" <=> sess.active
        /\ sess.phase = "sleep" => sess.elapsed < sess.timeout
        /\ sess.result = "timeout" => sess.lastState = lastResp.items[1]
        /\ sess.elapsed <= sess.timeout + MaxInterval

C4_Witness ==
    /\ Batch("update", "wait") /\ sess.allPending /\ sess.result = "timeout"
    /\ sess.lastState = "UPDATING" /\ sess.elapsed >= sess.timeout

C5_Inv ==
    /\ (Refreshed /\ lastResp.err = "" /\ Len(lastResp.items) = 1
                  /\ lastResp.items[1] \notin sess.pending \cup sess.target) =>
           sess.result = "unexpected" /\ ~sess.active
    /\ Batch("create", "wait") /\ Refreshed /\ Described("INVALID") =>
           sess.result = "unexpected"
    /\ pc = "done" /\ hist.polled = "unexpected" => ret = "err"

\* C5: a status that is neither pending nor target (INVALID in Batch Create)
\* ends the session at once in a failure; no refresh follows it, and the
\* handler returns an error.
C5_UnexpectedStatusFails ==
    /\ []C5_Inv
    /\ [][sess.result = "unexpected" =>
             (sess' = sess \/ (sess' = IdleSession /\ ret' = "err"))]_vars

C5_Witness ==
    Batch("create", "wait") /\ Described("INVALID") /\ sess.result = "unexpected"

\* C6: in the Batch delete poll an empty result set is the DELETED status and
\* the session succeeds, and so does Delete; for the SSM document an
\* InvalidDocument error of the deletion waiter makes Delete return success.
C6_NotFoundEndsDeletePoll ==
    /\ (Batch("delete", "delete_wait") /\ Refreshed /\ lastResp = Response("", <<>>)) =>
           sess.result = "ok" /\ sess.status = "DELETED"
    /\ (Batch("delete", "done") /\ hist.polled = "ok"
           /\ log[Len(log)] = Request("DeleteComputeEnvironment", TRUE)) => ret = "ok"
    /\ (Ssm("delete", "done") /\ hist.polled = "error"
           /\ hist.pollErr = "InvalidDocument") => ret = "ok"

C6_Witness ==
    /\ Batch("delete", "delete_wait") /\ lastResp = Response("", <<>>)
    /\ sess.result = "ok" /\ sess.status = "DELETED"

\* Every request the running handler issued was accepted by the remote side.
AllRequestsAccepted == \A i \in 1..Len(log) : log[i].ok

\* C7: Delete of a resource that no longer exists remotely returns success.
\* (Stated for the runs in which the remote side accepts every request and no
\* describe fails with an API error, so that the absence of the resource is
\* all that Delete meets.)
C7_DeleteOfGoneSucceeds ==
    (op = "delete" /\ pc = "done" /\ hist.goneAtStart /\ AllRequestsAccepted
        /\ hist.pollErr # "Other") => ret = "ok"

\* C8: a describe response with two or more results makes the operation fail:
\* no refresh function and no Read goes on with its first element.
C8_TwoResultsFail ==
    (lastResp.err = "" /\ Len(lastResp.items) >= 2) =>
        (ret = "err" \/ sess.result = "error")

C9_Inv ==
    (res = "batch" /\ sess.refresh = "BatchStatus" /\ Refreshed
        /\ (lastResp.err # "" \/ Len(lastResp.items) = 0)) =>
        sess.result = "error" /\ ~sess.active

\* C9: in a Batch status poll a describe call that returns an API error or an
\* empty result set ends the session at once in an error; no refresh follows
\* it, and the handler returns an error.
C9_StatusPollFailsOnErrorOrEmpty ==
    /\ []C9_Inv
    /\ [][(sess.refresh = "BatchStatus" /\ sess.result = "error") =>
             (sess' = sess \/ (sess' = IdleSession /\ ret' = "err"))]_vars

C9_Witness ==
    /\ Batch("create", "wait") /\ sess.n = 2 /\ lastResp = Response("", <<>>)
    /\ sess.result = "error"

\* C10: the tag update removes exactly the keys only the old mapping has and
\* sets exactly the keys that are new or have another value; applied to the
\* old mapping it yields the new one, and from the new mapping to itself it
\* is empty.
C10_TagDiff ==
    (cfg.o # cfg.n) =>
        LET o == cfg.o
            n == cfg.n
            req == cfg.tagRequest
        IN  /\ req.untag = {k \in TagKeys : k \in DOMAIN o /\ k \notin DOMAIN n}
            /\ DOMAIN req.tag =
                   {k \in TagKeys : k \in DOMAIN n /\ (k \notin DOMAIN o \/ o[k] # n[k])}
            /\ \A k \in DOMAIN req.tag : req.tag[k] = n[k]
            /\ ApplyTagRequest(o, req) = n
            /\ UpdateTagsRequest(n, n) = NoTagRequest
            /\ ApplyTagRequest(n, UpdateTagsRequest(n, n)) = n

C10_Witness ==
    /\ Batch("update", "read") /\ cfg.o # cfg.n
    /\ cfg.tagRequest.untag # {} /\ DOMAIN cfg.tagRequest.tag # {}

\* The requests of the running handler that are calls of c.
Calls(c) == {i \in 1..Len(log) : log[i].call = c}

\* C11 (as first stated): once the retry timeout of the Load Balancer tag step
\* has fired, no further tagging attempt is made.
C11_NoAttemptAfterTimeout ==
    (res = "lb" /\ op = "update" /\ hist.timedOut) => hist.late = 0

\* C11: in the Load Balancer tag step an attempt that fails with
\* LoadBalancerNotFound is retried until the timeout, and any other error ends
\* the step at once; once the timeout has fired at most one further attempt is
\* made, outside the retry, and the error of the last attempt made is returned
\* with no attempt after it.
C11_TagRetry ==
    (res = "lb" /\ op = "update") =>
        /\ pc = "tags_retry" =>
               /\ hist.tagErr \in {"", "LoadBalancerNotFound"} /\ ~hist.timedOut
               /\ \A i \in Calls("UpdateTags") : ~log[i].ok
               /\ Cardinality(Calls("UpdateTags")) = cfg.retried
               /\ cfg.retried <= RetryTimeout
        /\ hist.tagErr = "Other" => pc = "done" /\ ret = "err"
        /\ (hist.tagErr # "" /\ pc \notin {"tags_retry", "tags_final"}) =>
               pc = "done" /\ ret = "err" /\ ~log[Len(log)].ok
                  /\ log[Len(log)].call = "UpdateTags"
        /\ hist.timedOut =>
               /\ pc # "tags_retry" /\ hist.late <= 1
               /\ pc = "tags_final" <=> (hist.late = 0 /\ pc # "done")
               /\ Cardinality(Calls("UpdateTags")) = RetryTimeout + 1 + hist.late

\* The retry timed out, the one attempt after it failed, and Update returned
\* that error.
C11_Witness ==
    /\ Lb("update", "done") /\ hist.timedOut /\ hist.late = 1
    /\ hist.tagErr = "LoadBalancerNotFound" /\ ret = "err"

\* C12: Load Balancer Delete returns success exactly when the
\* DeleteLoadBalancer request succeeded: no failure of the interface cleanup
\* or of the wait for the interfaces to detach, and no unparsable ARN, makes
\* it return an error, and after a failed DeleteLoadBalancer no cleanup step
\* is attempted.
C12_LbDeleteBestEffort ==
    (res = "lb" /\ op = "delete") =>
        LET del == Calls("DeleteLoadBalancer")
        IN  /\ pc = "done" => (ret = "ok" <=> \E i \in del : log[i].ok)
            /\ (\E i \in del : ~log[i].ok) =>
                   /\ pc = "done" /\ ret = "err" /\ Len(log) = 1
                   /\ hist.cleanup = "none" /\ hist.detach = "none"
            /\ (hist.cleanup # "none" \/ hist.detach # "none") =>
                   (\E i \in del : log[i].ok) /\ ret # "err"
            /\ (pc = "done" /\ ret = "ok") =>
                   hist.cleanup # "none" /\ hist.detach # "none"
            /\ getLbNameFromArn(d.id).err =>
                   Calls("DescribeNetworkInterfaces") = {}

\* The cleanup failed, the wait timed out with interfaces still attached, and
\* Delete returned success.
C12_Witness ==
    /\ Lb("delete", "done") /\ ret = "ok" /\ hist.cleanup = "err"
    /\ hist.detach = "err" /\ hist.timedOut /\ hist.late = 1
    /\ ~getLbNameFromArn(d.id).err
\* The configuration the running handler was called with is malformed: a
\* MANAGED compute environment without compute_resources in Create, changed
\* compute_resources without the block in Update, or a permissions map without
\* "type" or "account_ids" or with a type other than Share.
Malformed ==
    \/ /\ res = "batch" /\ op = "create"
       /\ cfg.ceType = "MANAGED" /\ ~cfg.hasCR
    \/ /\ res = "batch" /\ op = "update"
       /\ cfg.crChanged /\ ~cfg.hasCR
    \/ /\ res = "ssm" /\ op \in {"create", "update"}
       /\ cfg.permissions.set
       /\ \/ cfg.permissions.type # "Share"
          \/ ~cfg.permissions.ids

\* C13: a malformed configuration makes the handler return an error before
\* any remote request: no request was issued, no poll session was started
\* and, in Create, the ID is still empty.
C13_MalformedRejectedFirst ==
    Malformed =>
        /\ pc = "done" /\ ret = "err"
        /\ log = <<>>
        /\ sess = IdleSession /\ hist.polled = "none" /\ ~hist.readInvoked
        /\ op = "create" => d.id = ""

\* An SSM Update with a permissions map that has no account_ids.
C13_Witness ==
    /\ Ssm("update", "done") /\ Malformed /\ ret = "err"
    /\ cfg.permissions = [set |-> TRUE, type |-> "Share", ids |-> FALSE]
\* The requests that remove a resource on the remote side.
DeleteCalls == {"DeleteComputeEnvironment", "DeleteLoadBalancer", "DeleteDocument"}

\* C14: a Create that fails after its create request was accepted returns an
\* error with the ID still set to the identifier of the created resource, and
\* no Create ever issues a request that deletes the resource: nothing is
\* rolled back.
C14_CreateFailureKeepsId ==
    (op = "create" /\ CreateAccepted) =>
        /\ \A i \in 1..Len(log) : log[i].call \notin DeleteCalls
        /\ ~hist.readInvoked => d.id # "" /\ d.id = d.name
        /\ (pc = "done" /\ ret = "err") => d.id # "" /\ d.id = d.name
        /\ (pc = "done" /\ hist.polled \in {"timeout", "unexpected", "error"}) =>
               ret = "err" /\ d.id # ""
        /\ (res = "ssm" /\ ~log[Len(log)].ok) => pc = "done" /\ ret = "err" /\ d.id # ""

\* Batch Create, whose poll timed out.
C14_Witness ==
    /\ Batch("create", "done") /\ ret = "err" /\ hist.polled = "timeout"
    /\ d.id # "" /\ d.id = d.name /\ remote = "present"
\* No loop of a handler goes beyond its ceiling: a poll session sleeps at
\* least one unit between two refreshes and makes none after its timeout has
\* elapsed; a retry makes no attempt after its timeout but, at most, one.
C15_Bounded ==
    /\ sess.elapsed <= sess.timeout + MaxInterval
    /\ sess.n <= sess.elapsed + 1
    /\ sess.sleeps <= sess.n
    /\ cfg.retried <= RetryTimeout
    /\ hist.late <= 1
    /\ Cardinality(Calls("UpdateTags")) <= RetryTimeout + 2
    /\ (res = "lb" /\ op = "delete") =>
           Cardinality(Calls("DescribeNetworkInterfaces")) <= RetryTimeout + 3

\* C15: every Create, Update and Delete handler terminates, whatever the
\* remote side answers: its poll sessions and retries end by success, error
\* or timeout, and after a retry timeout at most one more attempt is made.
C15_HandlersTerminate ==
    /\ []C15_Bounded
    /\ (op \in {"create", "update", "delete"}) ~> (pc = "done")

\* A Delete that has returned although the interfaces were reported as still
\* attached at every attempt, the one after the timeout included.
C15_Witness ==
    /\ Lb("delete", "done") /\ hist.timedOut /\ hist.late = 1
    /\ Cardinality(Calls("DescribeNetworkInterfaces")) = RetryTimeout + 3
\* A step that is the Read of a Batch compute environment or SSM document.
ReadStep ==
    res \in {"batch", "ssm"} /\ ~hist.readInvoked /\ hist'.readInvoked

\* The describe call of the Read step reported the resource absent: an empty
\* result set for Batch, an InvalidDocument error for the SSM document.
ReadFoundAbsent ==
    IF res = "batch" THEN lastResp'.err = "" /\ Len(lastResp'.items) = 0
                     ELSE lastResp'.err = "InvalidDocument"

\* C16: Read clears the ID and returns success exactly when the describe call
\* reports the resource absent; on any other describe error it returns an
\* error and leaves the local state as it was.
C16_ReadClearsIdWhenAbsent ==
    [][ReadStep =>
         /\ d.id # "" /\ pc' = "done"
         /\ ReadFoundAbsent <=> (d'.id = "" /\ ret' = "ok")
         /\ ReadFoundAbsent <=> d'.id = ""
         /\ (lastResp'.err # "" /\ ~ReadFoundAbsent) => (ret' = "err" /\ d' = d)]_vars

\* A Read that found the compute environment gone.
C16_Witness ==
    /\ Batch("read", "done") /\ hist.readInvoked /\ lastResp = Response("", <<>>)
    /\ d.id = "" /\ ret = "ok"
\* C17: for the Batch compute environment a non-empty ID equals
\* compute_environment_name in every state, after a Create as after an Import
\* and any Read and Update that follow: the handlers, which address the remote
\* environment by compute_environment_name, address the one the ID names.
C17_IdIsComputeEnvironmentName ==
    (res = "batch" /\ d.id # "") => d.name = d.id

\* An imported environment that an Update went through, with its Read.
C17_Witness ==
    /\ Batch("update", "done") /\ ret = "ok" /\ hist.readInvoked
    /\ d.id = "n3" /\ d.name = "n3" /\ d.status = "VALID"
\* The calls of the requests the running handler has issued, in order.
CallsInOrder == [i \in 1..Len(log) |-> log[i].call]

C18_Inv ==
    (res = "batch" /\ op = "delete") =>
        /\ CallsInOrder \in {<<>>, <<"UpdateComputeEnvironment">>,
                <<"UpdateComputeEnvironment", "DeleteComputeEnvironment">>}
        /\ Len(log) = 2 => log[1].ok /\ hist.targetSeen
        /\ pc \in {"delete", "delete_wait"} => log[1].ok /\ hist.targetSeen
        /\ pc = "disable_wait" => log = <<Request("UpdateComputeEnvironment", TRUE)>>
        /\ sess.active => \/ pc = "disable_wait" /\ sess.target = {"VALID"}
                                /\ sess.refresh = "BatchStatus"
                          \/ pc = "delete_wait" /\ sess.target = {"DELETED"}
                                /\ sess.refresh = "BatchDelete"
        /\ pc = "delete_wait" => log[2].ok
        /\ (pc = "done" /\ ret = "ok") =>
               /\ log = <<Request("UpdateComputeEnvironment", TRUE),
                          Request("DeleteComputeEnvironment", TRUE)>>
               /\ hist.polled = "ok"

\* C18: Batch Delete issues the disable request, polls until VALID, issues
\* DeleteComputeEnvironment and polls until DELETED, in this order and one
\* poll session at a time; the delete request is issued only after the
\* disable poll observed VALID, and Delete returns success only when the
\* delete poll has observed DELETED or an empty result.
C18_BatchDeleteOrder ==
    /\ []C18_Inv
    /\ [][(Batch("delete", "delete_wait") /\ pc' = "done" /\ ret' = "ok") =>
             /\ sess.result = "ok" /\ sess.status = "DELETED"
             /\ lastResp \in {Response("", <<>>), Response("", <<"DELETED">>),
                               Response("", <<"DELETED", "VALID">>)}]_vars

C18_Witness ==
    /\ Batch("delete", "done") /\ ret = "ok" /\ hist.targetSeen /\ hist.polled = "ok"
    /\ CallsInOrder = <<"UpdateComputeEnvironment", "DeleteComputeEnvironment">>
\* The tag requests the running handler has issued.
TagCalls == Calls("UntagResource") \cup Calls("TagResource")

\* An Update whose compute_resources changed to no block at all.
BatchUpdateRejected == cfg.crChanged /\ ~cfg.hasCR

\* C19 as stated: UpdateComputeEnvironment is issued exactly when
\* compute_resources, service_role or state changed.
C19_UpdateIffChanged ==
    (res = "batch" /\ op = "update" /\ pc # "begin") =>
        (cfg.changed <=> Calls("UpdateComputeEnvironment") # {})

\* C19: Batch Update issues UpdateComputeEnvironment exactly when
\* compute_resources, service_role or state changed and the changed
\* compute_resources block is present, and polls for VALID once the request
\* is accepted; it issues the tag update exactly when tags_all changed, and
\* only after every earlier step succeeded; Read runs last and only if every
\* issued step succeeded: a failed update poll leaves the tag change
\* unapplied and Read not invoked.
C19_BatchUpdateOrder ==
    (res = "batch" /\ op = "update" /\ pc # "begin") =>
        LET update == Calls("UpdateComputeEnvironment")
            allOk == \A i \in 1..Len(log) : log[i].ok
            earlierOk == cfg.changed => update = {1} /\ log[1].ok /\ hist.polled = "ok"
        IN  /\ update # {} <=> (cfg.changed /\ ~BatchUpdateRejected)
            /\ update \subseteq {1}
            /\ pc = "wait" => /\ log = <<Request("UpdateComputeEnvironment", TRUE)>>
                              /\ sess.target = {"VALID"}
                              /\ sess.refresh = "BatchStatus"
            /\ sess.active => pc = "wait"
            /\ hist.polled # "none" <=> (update # {} /\ log[1].ok /\ pc # "wait")
            /\ TagCalls # {} <=> cfg.tagsChanged
            /\ TagCalls # {} => earlierOk
            /\ pc \in {"tags", "read"} => earlierOk /\ allOk
            /\ hist.readInvoked => earlierOk /\ allOk /\ pc = "done"
            /\ (pc = "done" /\ ret = "ok") => hist.readInvoked
            /\ hist.polled \notin {"none", "ok"} =>
                   /\ pc = "done" /\ ret = "err"
                   /\ TagCalls = {} /\ ~hist.readInvoked

C19_Witness ==
    /\ Batch("update", "done") /\ ret = "ok" /\ hist.readInvoked
    /\ cfg.changed /\ cfg.tagsChanged /\ hist.polled = "ok"
    /\ CallsInOrder = <<"UpdateComputeEnvironment", "UntagResource", "TagResource">>
\* An SSM Update in which the user changed only tags and/or permissions: the
\* changed attributes are tags, permissions and the tags_all computed from
\* the changed tags.
SsmOnlyTagsOrPermissionsChanged ==
    /\ res = "ssm" /\ op = "update" /\ pc \in {"read", "wait", "done"}
    /\ cfg.diff # {}
    /\ cfg.diff \subseteq {"tags", "tags_all", "permissions"}

\* C20: an SSM Update in which the user changed only tags and/or permissions
\* issues neither UpdateDocument nor UpdateDocumentDefaultVersion.
C20_TagsOnlyUpdateLeavesDocument ==
    SsmOnlyTagsOrPermissionsChanged =>
        Calls("UpdateDocument") \cup Calls("UpdateDocumentDefaultVersion") = {}

\* An SSM Update that has gone through its document step.
SsmUpdatePastDocument ==
    res = "ssm" /\ op = "update" /\ pc \in {"read", "wait", "done"}
        /\ (pc = "done" => hist.readInvoked \/ cfg.schemaV1 \/ hist.polled # "none"
                               \/ Calls("UpdateDocument") # {})

C22_DefaultVersion ==
    (res = "ssm" /\ op = "update") =>
        LET upd == Calls("UpdateDocument")
            def == Calls("UpdateDocumentDefaultVersion")
        IN  /\ Cardinality(upd) <= 1 /\ Cardinality(def) <= 1
            /\ \A i \in def :
                  /\ i - 1 \in upd
                  /\ log[i - 1].ok =>
                         hist.updateErr = "" /\ log[i].arg = <<SsmUpdatedVersion>>
                  /\ ~log[i - 1].ok =>
                         /\ hist.updateErr = "DuplicateDocumentContent"
                         /\ log[i].arg = <<SsmLatestVersion>>
            /\ \A i \in upd :
                  (i + 1 \notin def) <=> hist.updateErr = "Other"
            /\ hist.updateErr = "Other" =>
                  /\ pc = "done" /\ ret = "err"
                  /\ upd = {Len(log)} /\ ~log[Len(log)].ok

\* UpdateDocument found the content a duplicate, and the latest version was
\* made the default one.
C22_Witness ==
    /\ Ssm("update", "done") /\ ret = "ok" /\ hist.readInvoked
    /\ hist.updateErr = "DuplicateDocumentContent"
    /\ log[Len(log)] = RequestWith("UpdateDocumentDefaultVersion", TRUE,
                                   "DocumentVersion", <<SsmLatestVersion>>)

\* The elements of a list.
Range(seq) == {seq[i] : i \in 1..Len(seq)}

\* C23: for every old and new account-id string the permission diff computes
\* toAdd = new \ old and toRemove = old \ new as sets; the two are disjoint,
\* (old \ toRemove) \cup toAdd = new, and the same ids in another order give
\* an empty toAdd and an empty toRemove.
C23_PermissionDiff ==
    (res = "ssm" /\ pc = "diff") =>
        LET old == Range(PermissionsAccountIds(cfg.old))
            new == Range(PermissionsAccountIds(cfg.new))
            toAdd == Range(hist.toAdd)
            toRemove == Range(hist.toRemove)
        IN  /\ toAdd = new \ old
            /\ toRemove = old \ new
            /\ toAdd \cap toRemove = {}
            /\ (old \ toRemove) \cup toAdd = new
            /\ old = new => hist.toAdd = <<>> /\ hist.toRemove = <<>>

\* The same two ids in the other order: nothing to add, nothing to remove.
C23_Witness ==
    /\ res = "ssm" /\ pc = "diff"
    /\ cfg.old.value = <<"a", ",", "b">> /\ cfg.new.value = <<"b", ",", "a">>
    /\ hist.toAdd = <<>> /\ hist.toRemove = <<>>

\* The lists of a list of lists, one after the other.
RECURSIVE Concat(_)
Concat(lists) == IF lists = <<>> THEN <<>> ELSE Head(lists) \o Concat(Tail(lists))

\* The account ids of the requests of the log that carry the parameter.
IdsSent(param) ==
    Concat([i \in 1..Cardinality({j \in 1..Len(log) : log[j].param = param}) |->
              log[CHOOSE j \in 1..Len(log) :
                    /\ log[j].param = param
                    /\ Cardinality({k \in 1..j : log[k].param = param}) = i].arg])

IsPrefix(a, b) == Len(a) <= Len(b) /\ a = SubSeq(b, 1, Len(a))

\* C24: every ModifyDocumentPermission request of modifyDocumentPermissions
\* carries at most 20 account ids; the batches in request order make up the
\* input list, all of it when no request fails; all add requests come before
\* all remove requests; the first failing request is the last one sent.
C24_Batches ==
    (res = "ssm" /\ pc = "modify") =>
        /\ \A i \in 1..Len(log) :
              /\ log[i].call = "ModifyDocumentPermission"
              /\ Len(log[i].arg) <= 20
              /\ log[i].param \in {"AccountIdsToAdd", "AccountIdsToRemove"}
              /\ i < Len(log) => log[i].ok
              /\ \A j \in 1..(i - 1) :
                    log[j].param = "AccountIdsToRemove" =>
                        log[i].param = "AccountIdsToRemove"
        /\ ret = "err" <=> (Len(log) > 0 /\ ~log[Len(log)].ok)
        /\ IsPrefix(IdsSent("AccountIdsToAdd"), cfg.toAdd.ids)
        /\ IsPrefix(IdsSent("AccountIdsToRemove"), cfg.toRemove.ids)
        /\ ret = "ok" => /\ IdsSent("AccountIdsToAdd") = cfg.toAdd.ids
                         /\ IdsSent("AccountIdsToRemove") = cfg.toRemove.ids
        /\ IdsSent("AccountIdsToRemove") # <<>> =>
              IdsSent("AccountIdsToAdd") = cfg.toAdd.ids

\* 41 ids to add go out as batches of 20, 20 and 1, before the one batch of
\* the ids to remove.
C24_Witness ==
    /\ res = "ssm" /\ pc = "modify" /\ ret = "ok"
    /\ Len(cfg.toAdd.ids) = 41 /\ Len(cfg.toRemove.ids) = 3
    /\ [i \in 1..Len(log) |-> Len(log[i].arg)] = <<20, 20, 1, 3>>

\* C25: no ModifyDocumentPermission request is issued with an empty list of
\* account ids.
C25_NoEmptyPermissionRequest ==
    res = "ssm" =>
        \A i \in Calls("ModifyDocumentPermission") : log[i].arg # <<>>

\* C26: SSM document Delete removes the permissions before it deletes the
\* document: DeleteDocument is issued only after every permission request
\* succeeded, the deletion waiter runs only after DeleteDocument succeeded,
\* and a failure of an earlier step makes Delete return an error with no
\* later request issued.
C26_SsmDeleteOrder ==
    (res = "ssm" /\ op = "delete") =>
        LET del == Calls("DeleteDocument")
            perm == Calls("ModifyDocumentPermission")
            waited == sess.active \/ sess.result # "none" \/ hist.polled # "none"
        IN  /\ Cardinality(del) <= 1
            /\ \A i \in del : i = Len(log) /\ perm = 1..(i - 1)
            /\ del # {} => \A j \in perm : log[j].ok
            /\ (\E j \in 1..Len(log) : ~log[j].ok) =>
                  /\ ~log[Len(log)].ok /\ \A j \in 1..(Len(log) - 1) : log[j].ok
                  /\ pc = "done" /\ ret = "err" /\ ~waited
            /\ waited => del # {} /\ log[Len(log)].ok
            /\ pc = "delete" => del = {}
            /\ pc = "delete_wait" => waited
            /\ (pc = "done" /\ ret = "ok") => waited

\* The permissions were removed, the document was deleted, and the waiter
\* saw it go.
C26_Witness ==
    /\ Ssm("delete", "done") /\ ret = "ok" /\ hist.polled # "none"
    /\ log = <<RequestWith("ModifyDocumentPermission", TRUE, "AccountIdsToRemove",
                            << <<"a">> >>),
               Request("DeleteDocument", TRUE)>>

\* C27: the Load Balancer handlers issue SetSubnets exactly when the subnets
\* changed and the resource is not newly created: Create, which runs the steps
\* of Update once the load balancer is active, never issues it.
C27_SetSubnets ==
    res = "lb" =>
        /\ Calls("SetSubnets") # {} <=> ("subnets" \in cfg.diff /\ ~d.isNew)
        /\ op = "create" => d.isNew /\ Calls("SetSubnets") = {}
        /\ Calls("SetSubnets") # {} => op = "update"

\* A Create with subnets went through the steps of Update and the Read with
\* no SetSubnets request.
C27_Witness ==
    /\ Lb("create", "done") /\ ret = "ok" /\ hist.readInvoked
    /\ "subnets" \in cfg.diff
    /\ Calls("CreateLoadBalancer") # {} /\ Calls("ModifyLoadBalancerAttributes") # {}
    /\ Calls("SetSubnets") = {}

\* C28: customizeDiffNLBSubnets marks subnets ForceNew exactly when the load
\* balancer type is network, the ID is not empty, and the old and the new set
\* of subnets differ; otherwise it changes nothing in the diff.
C28_ForceNewSubnets ==
    (res = "lb" /\ pc = "customize") =>
        LET marks == /\ cfg.lbType = "network"
                     /\ cfg.id # ""
                     /\ cfg.o.set # cfg.n.set
        IN  /\ "subnets" \in hist.forceNew <=> marks
            /\ ~marks => hist = NoDiffChange
            /\ hist.forceNew \subseteq {"subnets"}

\* A network load balancer that exists loses a subnet and gains none.
C28_Witness ==
    /\ res = "lb" /\ pc = "customize"
    /\ cfg.lbType = "network" /\ cfg.id # ""
    /\ cfg.o.set = {"s1", "s2"} /\ cfg.n.set = {"s1"}
    /\ hist.forceNew = {"subnets"}

\* The describe calls of the wait for the network interfaces: those of Delete
\* but the one of the cleanup.
DetachDescribes ==
    {i \in Calls("DescribeNetworkInterfaces") :
        \E j \in 1..(i - 1) : log[j].call = "DescribeNetworkInterfaces"}

\* C29: waitForNLBNetworkInterfacesToDetach returns success exactly when a
\* describe call reported no network interface, inside the retry or in the one
\* check made after the retry timed out; interfaces that are found are retried
\* until the timeout, and a describe error ends the wait at once with an
\* error.
C29_DetachWait ==
    (res = "lb" /\ op = "delete") =>
        /\ hist.detach = "ok" <=> hist.niSeen = "gone"
        /\ hist.niSeen \in {"gone", "failed"} =>
              /\ pc = "done" /\ hist.detach # "none"
              /\ log[Len(log)] = Request("DescribeNetworkInterfaces", hist.niSeen = "gone")
        /\ hist.niSeen = "found" =>
              \A i \in DetachDescribes : log[i].ok
        /\ (pc = "detach" /\ cfg.retried > 0) => hist.niSeen = "found"
        /\ pc = "detach" =>
              /\ ~hist.timedOut /\ hist.detach = "none"
              /\ Cardinality(DetachDescribes) = cfg.retried
              /\ cfg.retried <= RetryTimeout
        /\ pc = "detach_final" =>
              hist.timedOut /\ hist.late = 0 /\ hist.detach = "none"
        /\ hist.timedOut =>
              /\ hist.late <= 1
              /\ Cardinality(DetachDescribes) = RetryTimeout + 1 + hist.late
        /\ hist.detach = "ok" => hist.cleanup # "none"
        /\ Cardinality(DetachDescribes) <= RetryTimeout + 2

\* The retry timed out with interfaces still there, and the check after it
\* found none.
C29_Witness ==
    /\ Lb("delete", "done") /\ hist.timedOut /\ hist.late = 1
    /\ hist.detach = "ok" /\ hist.niSeen = "gone"

\* The Read step of the Load Balancer.
LbReadStep == res = "lb" /\ ~hist.readInvoked /\ hist'.readInvoked

\* The lookup of the Read step reported the load balancer gone: a
\* LoadBalancerNotFound error, or no load balancer and no error.
LbReadFoundGone ==
    \/ lastResp'.err = "LoadBalancerNotFound"
    \/ lastResp'.err = "" /\ Len(lastResp'.items) = 0

\* C30: Load Balancer Read never clears the ID of a resource that the running
\* operation created: when the lookup reports the load balancer gone, Read
\* returns an error and keeps the ID of a new resource, and clears the ID and
\* returns success for one that existed.
C30_ReadKeepsNewId ==
    [][LbReadStep =>
         /\ d.id # "" /\ pc' = "done"
         /\ d.isNew <=> op = "create"
         /\ d.isNew => d'.id = d.id
         /\ (LbReadFoundGone /\ d.isNew) => (ret' = "err" /\ d' = d)
         /\ (LbReadFoundGone /\ ~d.isNew) => (ret' = "ok" /\ d'.id = "")
         /\ d'.id = "" => LbReadFoundGone]_vars

\* The Read of a Create found no load balancer: an error, and the ID kept.
C30_Witness ==
    /\ Lb("create", "done") /\ hist.readInvoked /\ d.isNew
    /\ lastResp = Response("", <<>>)
    /\ ret = "err" /\ d.id # ""
====
